---- MODULE Spec2Model ----
(***************************************************************************)
(* Collection-and-deposit reconciliation workflow of the field-operations  *)
(* client: createCollectionOnErp (services/collectionService, kept in      *)
(* src/src/services/erpAuth.ts), createCashDeposit                         *)
(* (src/src/services/depositService.ts) and the two screens that call      *)
(* them, run against a remote store of Collection and Deposit documents.   *)
(*                                                                         *)
(* Every `await fetch(...)` of the services is one step.  The remote       *)
(* server is the environment: a request is answered 2xx ("ok"), non-2xx    *)
(* ("rejected") or fails at transport level ("threw"); only a 2xx answer   *)
(* changes the remote store.  Document names are assigned by the server    *)
(* and are modelled as the position of the document in the store.          *)
(* Amounts are whole numbers of the smallest currency unit.                *)
(***************************************************************************)
EXTENDS Integers, Sequences, FiniteSets, TLC

\* ------------------------------------------------------------------ bounds
\* Most calls of createCollectionOnErp and createCashDeposit started in a run.
MaxCalls == 3

VARIABLES
    calls,                  \* service calls started so far
    collections,            \* remote store: Seq of FOS Collection documents
    deposits,               \* remote store: Seq of FOS Cash Deposit documents
    userDoc,                \* remote store: the User document of the login
    \* ---- DepositScreen state (useState hooks)
    undepositedCollections, \* last fetched list, Seq of [name, amount]
    selectedCollections,    \* Set of selected collection names
    isAdding,               \* the deposit form is open
    isSaving,               \* a Save of the deposit form is running
    \* ---- one createCashDeposit call (locals of the async function)
    dpc,                    \* position in createCashDeposit / handleSave
    dParams,                \* CreateDepositParams of the running call
    depositName,            \* `depositName` (0 = null or '')
    dIdx,                   \* number of selected collections already visited
    dPayload,               \* body of the create request, once built
    dSlip,                  \* how the slip-image step ended
    dErr,                   \* the step whose error the call throws
    dLog,                   \* requests issued by the running call, in order
    dFullName,              \* `fullName` of the running call ("" before it is set)
    \* ---- CollectionScreen / one createCollectionOnErp call
    cpc,                    \* position in handleSave / createCollectionOnErp
    cForm,                  \* formData captured by the running handleSave
    cAlert,                 \* title of the Alert the handler raised
    cParams,                \* CreateCollectionParams of the running call
    cPayload,               \* body of the create request, once built
    collectionName,         \* `collectionName` (0 = null or '')
    cFail,                  \* the step that failed first
    cErr,                   \* the step whose error the call throws
    cLog,                   \* requests issued by the running handler
    cFullName,              \* `fullName` of the running call ("" before it is set)
    fileUrl,                \* `fileUrl` of the running call
    \* ---- a createCashDeposit call running on a second device
    other,                  \* its position, selection, depositName and loop index
    \* ---- one markAttendanceOnErp call and the FOS Attendance documents
    att,                    \* position, params, attendanceName, errors, requests, documents
    \* ---- the App root (isLoggedIn, fullName) and one loginWithPassword call
    sess                    \* position, credentials, response, result, requests

storeVars == <<collections, deposits, userDoc>>
screenVars == <<undepositedCollections, selectedCollections, isAdding, isSaving>>
depVars == <<dpc, dParams, depositName, dIdx, dPayload, dSlip, dErr, dLog,
            dFullName>>
colVars == <<cpc, cForm, cAlert, cParams, cPayload, collectionName, cFail, cErr, cLog,
            cFullName, fileUrl>>
vars == <<calls, collections, deposits,
          undepositedCollections, selectedCollections, isAdding, isSaving,
          dpc, dParams, depositName, dIdx, dPayload, dSlip, dErr, dLog,
          cpc, cForm, cAlert, cParams, cPayload, collectionName, cFail, cErr, cLog,
          userDoc, dFullName, cFullName, fileUrl, other, att, sess>>

\* ------------------------------------------------------------- helpers
\* One HTTP request: method, endpoint, document name (0 = none), body kind.
Req(m, u, n, b) == [m |-> m, u |-> u, n |-> n, b |-> b]

\* Outcomes of a fetch: 2xx, non-2xx, transport failure.
Responses == {"ok", "rejected", "threw"}

RECURSIVE SumAmounts(_)
SumAmounts(s) == IF s = <<>> THEN 0 ELSE s[1].amount + SumAmounts(Tail(s))

RECURSIVE FilterSeq(_, _)
\* Array.prototype.filter with the test `names.has(col.name)`.
FilterSeq(s, names) ==
    IF s = <<>> THEN <<>>
    ELSE IF s[1].name \in names
         THEN <<s[1]>> \o FilterSeq(Tail(s), names)
         ELSE FilterSeq(Tail(s), names)

NoParams == [none |-> TRUE]
NoPayload == [none |-> TRUE]

\* `undefined` of the optional fullName.
NoFullName == ""

\* No fetch answered yet.
NoResponse == [kind |-> "none", status |-> 0, body |-> "none"]

\* No LoginResult yet.
NoLoginResult == [thrown |-> FALSE, ok |-> FALSE, statusCode |-> 0, fullName |-> NoFullName]

\* App starts logged out (useState(false), useState(undefined)); no call runs.
NoSession ==
    [pc |-> "idle", isLoggedIn |-> FALSE, fullName |-> NoFullName,
     username |-> "", password |-> "", response |-> NoResponse,
     result |-> NoLoginResult, logout |-> "", log |-> <<>>]

\* No markAttendanceOnErp call was made, no FOS Attendance document exists.
NoAttendance ==
    [pc |-> "idle", attendanceTypeId |-> "", selfie |-> "none", attendanceName |-> 0,
     fail |-> "", err |-> "", rollback |-> "", log |-> <<>>, docs |-> <<>>]

\* No createCashDeposit call runs on a second device.
NoOtherCall == [pc |-> "idle", selected_collections |-> <<>>, depositName |-> 0, idx |-> 0]

\* `let fileUrl: string | undefined`, and a receipt_image never set.
NoFileUrl == [file_url |-> "", docname |-> 0]

\* ------------------------------------------------------ texts and dates
\* A free text (a date field, a datetime parameter) is the sequence of its
\* characters.
DigitChars == {"0", "1", "2", "3", "4", "5", "6", "7", "8", "9"}

DigitValue(c) ==
    CASE c = "0" -> 0 [] c = "1" -> 1 [] c = "2" -> 2 [] c = "3" -> 3
      [] c = "4" -> 4 [] c = "5" -> 5 [] c = "6" -> 6 [] c = "7" -> 7
      [] c = "8" -> 8 [] c = "9" -> 9

DigitChar(n) ==
    CASE n = 0 -> "0" [] n = 1 -> "1" [] n = 2 -> "2" [] n = 3 -> "3"
      [] n = 4 -> "4" [] n = 5 -> "5" [] n = 6 -> "6" [] n = 7 -> "7"
      [] n = 8 -> "8" [] n = 9 -> "9"

RECURSIVE NumberOf(_)
\* Number(str) of a string of decimal digits.
NumberOf(s) ==
    IF s = <<>> THEN 0
    ELSE 10 * NumberOf(SubSeq(s, 1, Len(s) - 1)) + DigitValue(s[Len(s)])

RECURSIVE DigitsOf(_)
\* String(n) of a natural number.
DigitsOf(n) ==
    IF n < 10 THEN <<DigitChar(n)>>
    ELSE DigitsOf(n \div 10) \o <<DigitChar(n % 10)>>

\* str.padStart(2, '0')
padStart2(s) ==
    IF Len(s) >= 2 THEN s
    ELSE IF Len(s) = 1 THEN <<"0">> \o s
    ELSE <<"0", "0">>

\* pad2 / String(n).padStart(2, '0') of a natural number.
pad2(n) == padStart2(DigitsOf(n))

RECURSIVE TrimStart(_)
TrimStart(s) == IF s # <<>> /\ s[1] = " " THEN TrimStart(Tail(s)) ELSE s

RECURSIVE TrimEnd(_)
TrimEnd(s) ==
    IF s # <<>> /\ s[Len(s)] = " " THEN TrimEnd(SubSeq(s, 1, Len(s) - 1)) ELSE s

\* String.prototype.trim
TrimText(s) == TrimEnd(TrimStart(s))

RECURSIVE DigitRun(_)
\* The digits a text starts with.
DigitRun(s) ==
    IF s = <<>> \/ s[1] \notin DigitChars THEN <<>>
    ELSE <<s[1]>> \o DigitRun(Tail(s))

RECURSIVE Tokens(_)
\* A text cut into its maximal runs of digits and its other characters, the
\* units the regular expressions of the date parsers are written in.
Tokens(s) ==
    IF s = <<>> THEN <<>>
    ELSE IF s[1] \in DigitChars
         THEN <<DigitRun(s)>> \o Tokens(SubSeq(s, Len(DigitRun(s)) + 1, Len(s)))
         ELSE << <<s[1]>> >> \o Tokens(Tail(s))

\* \d{lo,hi} as a whole token
IsRun(t, lo, hi) == t[1] \in DigitChars /\ Len(t) \in lo..hi

\* one character of the class `set` as a whole token
IsSep(t, set) == t[1] \in set

RECURSIVE DropSpaces(_)
\* \s* at the head of a token sequence
DropSpaces(ts) ==
    IF ts # <<>> /\ ts[1] = <<" ">> THEN DropSpaces(Tail(ts)) ELSE ts

\* A Date object: local calendar fields, or an Invalid Date.
InvalidDate == [valid |-> FALSE, y |-> 0, m |-> 0, d |-> 0, h |-> 0, mi |-> 0, s |-> 0]

\* Readings of the device clock.
Clocks ==
    {[valid |-> TRUE, y |-> 2025, m |-> 11, d |-> 24, h |-> 10, mi |-> 30, s |-> 15],
     [valid |-> TRUE, y |-> 2026, m |-> 1, d |-> 5, h |-> 23, mi |-> 59, s |-> 59]}

\* The clock when the deposit screen was rendered.
RenderClock == [valid |-> TRUE, y |-> 2025, m |-> 11, d |-> 24, h |-> 10, mi |-> 30, s |-> 15]

\* Days from 1970-01-01 to the civil date y-m-d, m in 1..12, d any integer.
DaysFromCivil(y, m, d) ==
    LET yy == IF m <= 2 THEN y - 1 ELSE y
        era == yy \div 400
        yoe == yy - era * 400
        mp == IF m > 2 THEN m - 3 ELSE m + 9
        doy == (153 * mp + 2) \div 5 + d - 1
        doe == yoe * 365 + yoe \div 4 - yoe \div 100 + doy
    IN  era * 146097 + doe - 719468

\* The civil date of a day number.
CivilFromDays(n) ==
    LET z == n + 719468
        era == z \div 146097
        doe == z - era * 146097
        yoe == (doe - doe \div 1460 + doe \div 36524 - doe \div 146096) \div 365
        doy == doe - (365 * yoe + yoe \div 4 - yoe \div 100)
        mp == (5 * doy + 2) \div 153
        d == doy - (153 * mp + 2) \div 5 + 1
        m == IF mp < 10 THEN mp + 3 ELSE mp - 9
    IN  [y |-> yoe + era * 400 + (IF m <= 2 THEN 1 ELSE 0), m |-> m, d |-> d]

\* The Date of local calendar fields, fields out of range carrying over
\* into the next unit (monthIndex counts from 0).
DateFromFields(fullYear, monthIndex, day, hours, minutes, seconds) ==
    LET months == fullYear * 12 + monthIndex
        secs == hours * 3600 + minutes * 60 + seconds
        days == DaysFromCivil(months \div 12, (months % 12) + 1, day) + secs \div 86400
        rest == secs % 86400
        civil == CivilFromDays(days)
    IN  [valid |-> TRUE, y |-> civil.y, m |-> civil.m, d |-> civil.d,
         h |-> rest \div 3600, mi |-> (rest % 3600) \div 60, s |-> rest % 60]

\* new Date(year, monthIndex, day, hours, minutes, seconds): a year 0..99
\* means 1900 + year.
MakeDate(year, monthIndex, day, hours, minutes, seconds) ==
    DateFromFields(IF year \in 0..99 THEN 1900 + year ELSE year,
                   monthIndex, day, hours, minutes, seconds)

\* Days of month m (1..12) of year y: day 0 of the following month.
DaysInMonth(y, m) == DateFromFields(y, m, 0, 0, 0, 0).d

\* formatDateForErp: YYYY-MM-DD of a Date.
formatDateForErp(date) ==
    DigitsOf(date.y) \o <<"-">> \o pad2(date.m) \o <<"-">> \o pad2(date.d)

\* formatDateTimeForErp (the service) and formatDateToErp (the screen):
\* YYYY-MM-DD HH:MM:SS of a Date.
formatDateTimeForErp(date) ==
    formatDateForErp(date) \o <<" ">> \o pad2(date.h) \o <<":">> \o pad2(date.mi)
        \o <<":">> \o pad2(date.s)

\* formatDateForDisplay: DD/MM/YYYY of a Date.
formatDateForDisplay(date) ==
    pad2(date.d) \o <<"/">> \o pad2(date.m) \o <<"/">> \o DigitsOf(date.y)

\* /^\d{4}-\d{2}-\d{2}$/ on the tokens of a text
MatchesYmd(ts) ==
    /\ Len(ts) = 5
    /\ IsRun(ts[1], 4, 4) /\ ts[2] = <<"-">>
    /\ IsRun(ts[3], 2, 2) /\ ts[4] = <<"-">>
    /\ IsRun(ts[5], 2, 2)

\* /^\d{1,2}[/-]\d{1,2}[/-]\d{4}$/ on the tokens of a text
MatchesDmy(ts) ==
    /\ Len(ts) = 5
    /\ IsRun(ts[1], 1, 2) /\ IsSep(ts[2], {"/", "-"})
    /\ IsRun(ts[3], 1, 2) /\ IsSep(ts[4], {"/", "-"})
    /\ IsRun(ts[5], 4, 4)

\* /^(\d{1,2}):(\d{2})(?::(\d{2}))?$/ on the tokens of a text
MatchesTime(ts) ==
    /\ Len(ts) \in {3, 5}
    /\ IsRun(ts[1], 1, 2) /\ ts[2] = <<":">> /\ IsRun(ts[3], 2, 2)
    /\ Len(ts) = 5 => (ts[4] = <<":">> /\ IsRun(ts[5], 2, 2))

\* The hours, minutes and seconds of tokens MatchesTime accepts.
TimeOf(ts) ==
    [h |-> NumberOf(ts[1]), mi |-> NumberOf(ts[3]),
     s |-> IF Len(ts) = 5 THEN NumberOf(ts[5]) ELSE 0]

\* Offsets of local time from UTC, in minutes, of the devices considered.
TimeZoneOffsets == {-300, 0, 330}

\* Calendar fields as the ISO format admits them.
IsoFieldsInRange(y, m, d, t) ==
    /\ m \in 1..12 /\ d \in 1..31
    /\ t.h \in 0..23 /\ t.mi \in 0..59 /\ t.s \in 0..59

\* new Date(text), which is Date.parse(text).  The ISO forms are fixed by
\* the language: YYYY-MM-DD is midnight UTC, YYYY-MM-DDTHH:MM[:SS] is
\* local time, a field out of range is an Invalid Date.  Everything else
\* is up to the engine: a day past the end of its month is rejected or
\* carried over, a date and a time separated by a space or an hour of one
\* digit are rejected or read as local time, a text N/N/YYYY or N-N-YYYY
\* is rejected or read month first.
NativeDateParse(text) ==
    LET ts == Tokens(text)
        date == SubSeq(ts, 1, 5)
        tail == SubSeq(ts, 7, Len(ts))
        n1 == NumberOf(ts[1])
        n2 == NumberOf(ts[3])
        n3 == NumberOf(ts[5])
    IN  IF MatchesYmd(ts)
        THEN IF ~IsoFieldsInRange(n1, n2, n3, [h |-> 0, mi |-> 0, s |-> 0])
             THEN {InvalidDate}
             ELSE {DateFromFields(n1, n2 - 1, n3, 0, tz, 0) : tz \in TimeZoneOffsets}
                  \cup (IF n3 > DaysInMonth(n1, n2) THEN {InvalidDate} ELSE {})
        ELSE IF Len(ts) >= 9 /\ MatchesYmd(date) /\ ts[6] \in {<<"T">>, <<" ">>}
                /\ MatchesTime(tail)
        THEN IF ~IsoFieldsInRange(n1, n2, n3, TimeOf(tail))
             THEN {InvalidDate}
             ELSE {DateFromFields(n1, n2 - 1, n3, TimeOf(tail).h, TimeOf(tail).mi,
                                  TimeOf(tail).s)}
                  \cup (IF \/ n3 > DaysInMonth(n1, n2)
                           \/ ts[6] = <<" ">>
                           \/ Len(ts[7]) = 1
                        THEN {InvalidDate} ELSE {})
        ELSE IF MatchesDmy(ts)
        THEN {InvalidDate}
             \cup (IF n1 \in 1..12 /\ n2 \in 1..31
                   THEN {MakeDate(n3, n1 - 1, n2, 0, 0, 0)} ELSE {})
        ELSE {InvalidDate}

RECURSIVE ReplaceFirstSpace(_)
\* raw.replace(' ', 'T')
ReplaceFirstSpace(s) ==
    IF s = <<>> THEN <<>>
    ELSE IF s[1] = " " THEN <<"T">> \o Tail(s)
    ELSE <<s[1]>> \o ReplaceFirstSpace(Tail(s))

\* parseUserDateTime of a trimmed, non-empty text: the Dates it can
\* return, InvalidDate standing for null.
parseUserDateTime(raw) ==
    LET ts == Tokens(raw)
        rest == DropSpaces(SubSeq(ts, 6, Len(ts)))
        time == IF Len(ts) = 5 THEN [h |-> 0, mi |-> 0, s |-> 0] ELSE TimeOf(rest)
    IN  IF /\ Len(ts) >= 5
           /\ IsRun(ts[1], 4, 4) /\ ts[2] = <<"-">>
           /\ IsRun(ts[3], 2, 2) /\ ts[4] = <<"-">>
           /\ IsRun(ts[5], 2, Len(raw))
        THEN NativeDateParse(ReplaceFirstSpace(raw))
        ELSE IF /\ Len(ts) >= 5
                /\ MatchesDmy(SubSeq(ts, 1, 5))
                /\ \/ Len(ts) = 5
                   \/ ts[6] = <<" ">> /\ MatchesTime(rest)
        THEN {MakeDate(NumberOf(ts[5]), NumberOf(ts[3]) - 1, NumberOf(ts[1]),
                       time.h, time.mi, time.s)}
        ELSE {InvalidDate}

\* normalizeCollectionDatetime: the results it can have.  undefined for an
\* empty text (ok, no text), the canonical text of the Date read, or the
\* "Invalid date format" error (ok = FALSE).
NormalizedCollectionDatetime(input) ==
    LET raw == TrimText(input)
    IN  IF raw = <<>> THEN {[ok |-> TRUE, defined |-> FALSE, text |-> <<>>]}
        ELSE {IF parsed.valid
              THEN [ok |-> TRUE, defined |-> TRUE, text |-> formatDateTimeForErp(parsed)]
              ELSE [ok |-> FALSE, defined |-> FALSE, text |-> <<>>] :
                  parsed \in parseUserDateTime(raw)}

\* /^(\d{2})\/(\d{2})\/(\d{4})$/ on the tokens of a text
MatchesDdMmYyyy(ts) ==
    /\ Len(ts) = 5
    /\ IsRun(ts[1], 2, 2) /\ ts[2] = <<"/">>
    /\ IsRun(ts[3], 2, 2) /\ ts[4] = <<"/">>
    /\ IsRun(ts[5], 4, 4)

\* parseUserInputToErpDatetime: the results it can have, the canonical
\* text (of the clock for an empty text) or the "Invalid date format" error
\* (ok = FALSE).
parseUserInputToErpDatetime(input) ==
    LET value == TrimText(input)
        ts == Tokens(value)
        dates ==
            IF value = <<>> THEN Clocks
            ELSE IF MatchesDdMmYyyy(ts)
            THEN {MakeDate(NumberOf(ts[5]), NumberOf(ts[3]) - 1, NumberOf(ts[1]), 0, 0, 0)}
            ELSE IF MatchesYmd(ts)
            THEN {MakeDate(NumberOf(ts[1]), NumberOf(ts[3]) - 1, NumberOf(ts[5]), 0, 0, 0)}
            ELSE NativeDateParse(value)
    IN  {IF date.valid
         THEN [ok |-> TRUE, text |-> formatDateTimeForErp(date)]
         ELSE [ok |-> FALSE, text |-> <<>>] : date \in dates}

\* ------------------------------------------------------------ identity
\* The email get_logged_user answers for the session.
LoginEmail == "agent@erp"

\* User documents the server can hold for the login: each name field is
\* empty or filled.
UserDocs ==
    [full_name : {"", "Full Name"},
     first_name : {"", "First"},
     username : {"", "user"}]

\* The User document of a login whose names are all filled.
NamedUserDoc == [full_name |-> "Full Name", first_name |-> "First", username |-> "user"]

\* Mutation of fetchUserFullName: a 2xx answer gives full_name, with no
\* fallback.
fetchUserFullNameOnly(r, doc, userEmail) ==
    IF r # "ok" THEN userEmail ELSE doc.full_name

\* fetchUserFullName once the GET was answered r ("ok" or "rejected"): a
\* non-2xx answer gives the email, a 2xx answer the first non-empty of
\* full_name, first_name, username, and the email when all are empty.
fetchUserFullName(r, doc, userEmail) ==
    IF r # "ok" THEN userEmail
    ELSE IF doc.full_name # "" THEN doc.full_name
    ELSE IF doc.first_name # "" THEN doc.first_name
    ELSE IF doc.username # "" THEN doc.username
    ELSE userEmail

\* ------------------------------------------------------ remote store
NewDeposit(payload) ==
    [status |-> "live",
     amount_deposited |-> payload.amount_deposited,
     collections |-> payload.collections,
     deposit_slip_image |-> ""]

NewCollection(payload) ==
    [status |-> "live",
     amount |-> payload.amount,
     mode |-> payload.mode,
     upi_txn_id |-> payload.upi_txn_id,
     cheque_no |-> payload.cheque_no,
     is_deposited |-> payload.is_deposited,
     \* docPayload carries no docstatus: the document is stored as a draft.
     docstatus |-> 0,
     receipt_image |-> NoFileUrl]

Live(store, n) == n \in 1..Len(store) /\ store[n].status = "live"

RECURSIVE UndepositedUpTo(_, _)
\* The rows the list request returns: filter is_deposited = 0 (owner is the
\* one logged-in user), order_by creation desc, fields name and amount.
UndepositedUpTo(store, n) ==
    IF n = 0 THEN <<>>
    ELSE IF store[n].status = "live" /\ store[n].is_deposited = 0
         THEN <<[name |-> n, amount |-> store[n].amount]>>
              \o UndepositedUpTo(store, n - 1)
         ELSE UndepositedUpTo(store, n - 1)

\* Mutation of fetchUndepositedCollections: the is_deposited filter is
\* missing from the list request.
fetchUndepositedCollectionsNoFilter ==
    [i \in 1..Len(collections) |->
        [name |-> Len(collections) + 1 - i,
         amount |-> collections[Len(collections) + 1 - i].amount]]

fetchUndepositedCollections == UndepositedUpTo(collections, Len(collections))

\* ------------------------------------------------------ DepositScreen
\* formData of the deposit form when Save is pressed: the date is the
\* default (todayStr, YYYY-MM-DD) or retyped into something unreadable.
\* handlePickSlipImage stores an asset only when it has a uri.
DepositForms ==
    [fos_agent : {"", "agent"},
     bank_name : {"", "bank"},
     deposit_date : {formatDateForErp(RenderClock), <<"s", "o", "o", "n">>},
     deposit_slip_image_asset : {"none", "uri"}]

ClientIdle == dpc = "idle" /\ cpc = "idle"

DepositLocalsReset ==
    /\ dParams' = NoParams
    /\ depositName' = 0
    /\ dIdx' = 0
    /\ dPayload' = NoPayload
    /\ dSlip' = "none"
    /\ dErr' = ""
    /\ dLog' = <<>>
    /\ dFullName' = ""

\* loadData / onRefresh: both lists are fetched, then stored; on any error
\* nothing is stored.  selectedCollections is not touched.
loadData ==
    /\ ClientIdle
    /\ \E r \in {"ok", "failed"} :
         undepositedCollections' =
             IF r = "ok" THEN fetchUndepositedCollections
             ELSE undepositedCollections
    /\ UNCHANGED <<selectedCollections, isAdding, isSaving>>
    /\ UNCHANGED <<calls, storeVars, depVars, colVars>>
    /\ UNCHANGED other
    /\ UNCHANGED <<att, sess>>

\* "Add Deposit" button: disabled while the form is open or the list is empty.
AddDeposit ==
    /\ ClientIdle
    /\ ~isAdding
    /\ Len(undepositedCollections) > 0
    /\ isAdding' = TRUE
    /\ UNCHANGED <<undepositedCollections, selectedCollections, isSaving>>
    /\ UNCHANGED <<calls, storeVars, depVars, colVars>>
    /\ UNCHANGED other
    /\ UNCHANGED <<att, sess>>

\* Cancel button of the form: clearForm() and setIsAdding(false).
CancelDeposit ==
    /\ ClientIdle
    /\ isAdding /\ ~isSaving
    /\ selectedCollections' = {}
    /\ isAdding' = FALSE
    /\ UNCHANGED <<undepositedCollections, isSaving>>
    /\ UNCHANGED <<calls, storeVars, depVars, colVars>>
    /\ UNCHANGED other
    /\ UNCHANGED <<att, sess>>

\* A row of the rendered list is pressed.
toggleCollection ==
    /\ ClientIdle
    /\ isAdding
    /\ \E i \in 1..Len(undepositedCollections) :
         LET collectionId == undepositedCollections[i].name IN
         selectedCollections' =
             IF collectionId \in selectedCollections
             THEN selectedCollections \ {collectionId}
             ELSE selectedCollections \cup {collectionId}
    /\ UNCHANGED <<undepositedCollections, isAdding, isSaving>>
    /\ UNCHANGED <<calls, storeVars, depVars, colVars>>
    /\ UNCHANGED other
    /\ UNCHANGED <<att, sess>>

\* The list handed to createCashDeposit by handleSave.
SelectedForSave == FilterSeq(undepositedCollections, selectedCollections)

\* handleSave up to the call of createCashDeposit.
DepositHandleSave ==
    /\ ClientIdle
    /\ isAdding /\ ~isSaving
    /\ \E form \in DepositForms :
         IF selectedCollections = {}
         THEN /\ dpc' = "alerted" /\ dErr' = "No Collections"
              /\ UNCHANGED <<calls, dParams, isSaving>>
         ELSE IF form.fos_agent = "" \/ form.bank_name = ""
         THEN /\ dpc' = "alerted" /\ dErr' = "Missing Fields"
              /\ UNCHANGED <<calls, dParams, isSaving>>
         ELSE /\ calls < MaxCalls
              /\ calls' = calls + 1
              /\ isSaving' = TRUE
              /\ dpc' = "email"
              /\ dErr' = ""
              /\ dParams' = [fos_agent |-> form.fos_agent,
                             deposit_date |-> form.deposit_date,
                             selected_collections |-> SelectedForSave,
                             deposit_slip_image |-> form.deposit_slip_image_asset]
    /\ UNCHANGED <<depositName, dIdx, dPayload, dSlip, dLog>>
    /\ UNCHANGED <<undepositedCollections, selectedCollections, isAdding>>
    /\ UNCHANGED <<storeVars, colVars>>
    /\ UNCHANGED <<dFullName>>
    /\ UNCHANGED other
    /\ UNCHANGED <<att, sess>>

\* The Alert of a refused Save is dismissed.
DepositDismissAlert ==
    /\ dpc = "alerted"
    /\ dpc' = "idle"
    /\ dErr' = ""
    /\ UNCHANGED <<dParams, depositName, dIdx, dPayload, dSlip, dLog>>
    /\ UNCHANGED <<calls, storeVars, screenVars, colVars>>
    /\ UNCHANGED <<dFullName>>
    /\ UNCHANGED other
    /\ UNCHANGED <<att, sess>>

\* --------------------------------------------------- createCashDeposit
\* Mutation of TotalAmount: the reduce is seeded with the first item and
\* never adds it.
TotalAmountSkipsFirst(selected_collections) ==
    IF selected_collections = <<>> THEN 0
    ELSE SumAmounts(Tail(selected_collections))

\* const totalAmount = selected_collections.reduce((sum, col) => sum + col.amount, 0)
TotalAmount(selected_collections) == SumAmounts(selected_collections)

\* selected_collections.map(col => ({collection: col.name, amount: col.amount}))
CollectionItems(selected_collections) ==
    [i \in 1..Len(selected_collections) |->
        [collection |-> selected_collections[i].name,
         amount |-> selected_collections[i].amount]]

\* Mutation of NormalizedDepositDate: the first number of a D/M/Y text is
\* taken for the month.
NormalizedDepositDateMonthFirst(deposit_date, now) ==
    LET raw == TrimText(deposit_date)
        ts == Tokens(raw)
    IN  IF raw = <<>> THEN [ok |-> TRUE, text |-> formatDateForErp(now)]
        ELSE IF MatchesYmd(ts) THEN [ok |-> TRUE, text |-> raw]
        ELSE IF MatchesDmy(ts)
        THEN [ok |-> TRUE,
              text |-> ts[5] \o <<"-">> \o padStart2(ts[1]) \o <<"-">> \o padStart2(ts[3])]
        ELSE [ok |-> FALSE, text |-> <<>>]

\* The deposit_date branches: empty -> today, YYYY-MM-DD -> as typed,
\* D/M/YYYY -> `${y}-${m}-${d}` with day and month padded, anything else ->
\* the "Invalid Deposit Date" error (ok = FALSE).
NormalizedDepositDate(deposit_date, now) ==
    LET raw == TrimText(deposit_date)
        ts == Tokens(raw)
    IN  IF raw = <<>> THEN [ok |-> TRUE, text |-> formatDateForErp(now)]
        ELSE IF MatchesYmd(ts) THEN [ok |-> TRUE, text |-> raw]
        ELSE IF MatchesDmy(ts)
        THEN [ok |-> TRUE,
              text |-> ts[5] \o <<"-">> \o padStart2(ts[3]) \o <<"-">> \o padStart2(ts[1])]
        ELSE [ok |-> FALSE, text |-> <<>>]

DepositPayload(params, fullName, normalizedDepositDate) ==
    [fos_agent |-> IF params.fos_agent # "" THEN params.fos_agent ELSE fullName,
     deposit_date |-> normalizedDepositDate,
     amount_deposited |-> TotalAmount(params.selected_collections),
     collections |-> CollectionItems(params.selected_collections)]

\* Mutation of DepositCatchPc: the catch block rolls back without looking
\* at depositName.
DepositCatchPcAlwaysRollsBack(name) == "rb_csrf"

\* The catch block: with a known depositName the deposit is rolled back
\* (deleteDepositDoc) before the error is rethrown.
DepositCatchPc(name) == IF name # 0 THEN "rb_csrf" ELSE "thrown"

\* Where the call goes once the slip-image block is over.
DepositAfterSlip(params) ==
    IF Len(params.selected_collections) = 0 THEN "fetch" ELSE "flag"

\* Where the call goes after the create request returned a name.
DepositAfterCreate(params) ==
    IF params.deposit_slip_image = "uri" THEN "upload" ELSE DepositAfterSlip(params)

\* Mutation of DepositAfterFlag: the loop body has no try/catch, so a
\* throwing request reaches the catch block of the function.
DepositAfterFlagUncaught(r, i, n) ==
    IF r = "threw" THEN "rb_csrf" ELSE IF i = n THEN "fetch" ELSE "flag"

\* Where the flagging loop goes after the attempt for item number i of n
\* was answered r: the fetch result is only logged, a throw is caught.
DepositAfterFlag(r, i, n) == IF i = n THEN "fetch" ELSE "flag"

\* fetchLoggedInUserEmail
DepositFetchEmail ==
    /\ dpc = "email"
    /\ dLog' = Append(dLog, Req("GET", "get_logged_user", 0, "none"))
    /\ \E r \in Responses \cup {"badbody"} :
         IF r = "ok"
         THEN dpc' = "fullname" /\ dErr' = dErr
         ELSE dpc' = DepositCatchPc(depositName) /\ dErr' = "email"
    /\ UNCHANGED <<dParams, depositName, dIdx, dPayload, dSlip>>
    /\ UNCHANGED <<calls, storeVars, screenVars, colVars>>
    /\ UNCHANGED <<dFullName>>
    /\ UNCHANGED other
    /\ UNCHANGED <<att, sess>>

\* fetchUserFullName: a non-2xx answer falls back to the email.
DepositFetchFullName ==
    /\ dpc = "fullname"
    /\ dLog' = Append(dLog, Req("GET", "User", 0, "none"))
    /\ \E r \in Responses :
         IF r = "threw"
         THEN /\ dpc' = DepositCatchPc(depositName)
              /\ dErr' = "fullname"
              /\ dFullName' = dFullName
         ELSE /\ dpc' = "csrf"
              /\ dErr' = dErr
              /\ dFullName' = fetchUserFullName(r, userDoc, LoginEmail)
    /\ UNCHANGED <<dParams, depositName, dIdx, dPayload, dSlip>>
    /\ UNCHANGED <<calls, storeVars, screenVars, colVars>>
    /\ UNCHANGED other
    /\ UNCHANGED <<att, sess>>

\* Mutation of DepositAfterBuild: the collections are flagged before the
\* deposit is created.
DepositAfterBuildFlagsFirst(params) ==
    IF Len(params.selected_collections) = 0 THEN "create" ELSE "flag"

\* Where the call goes once the payload is built: the create request.
DepositAfterBuild(params) == "create"

\* getCSRFToken (never throws), then the date is normalised and the
\* payload is built.  `fullName` is read here for the last time: the model
\* forgets it.
DepositGetCsrfAndBuild ==
    /\ dpc = "csrf"
    /\ dLog' = Append(dLog, Req("GET", "get_logged_user", 0, "none"))
    /\ \E now \in Clocks :
         LET normalized == NormalizedDepositDate(dParams.deposit_date, now)
         IN  IF ~normalized.ok
             THEN /\ dpc' = DepositCatchPc(depositName)
                  /\ dErr' = "date"
                  /\ dPayload' = dPayload
             ELSE /\ dpc' = DepositAfterBuild(dParams)
                  /\ dErr' = dErr
                  /\ dPayload' = DepositPayload(dParams, dFullName, normalized.text)
    /\ dFullName' = ""
    /\ UNCHANGED <<dParams, depositName, dIdx, dSlip>>
    /\ UNCHANGED <<calls, storeVars, screenVars, colVars>>
    /\ UNCHANGED other
    /\ UNCHANGED <<att, sess>>

\* POST of the deposit.  "noname": 2xx without data.name.
DepositCreate ==
    /\ dpc = "create"
    /\ dLog' = Append(dLog, Req("POST", "FOS Cash Deposit", 0, "payload"))
    /\ \E r \in Responses \cup {"noname"} :
         \/ /\ r = "ok"
            /\ deposits' = Append(deposits, NewDeposit(dPayload))
            /\ depositName' = Len(deposits) + 1
            /\ dpc' = DepositAfterCreate(dParams)
            /\ dErr' = dErr
         \/ /\ r = "noname"
            /\ deposits' = Append(deposits, NewDeposit(dPayload))
            /\ depositName' = 0
            /\ dpc' = DepositCatchPc(0)
            /\ dErr' = "noname"
         \/ /\ r \in {"rejected", "threw"}
            /\ dpc' = DepositCatchPc(depositName)
            /\ dErr' = "create"
            /\ UNCHANGED <<deposits, depositName>>
    /\ UNCHANGED <<dParams, dIdx, dPayload, dSlip>>
    /\ UNCHANGED <<calls, collections, screenVars, colVars>>
    /\ UNCHANGED <<userDoc, dFullName>>
    /\ UNCHANGED other
    /\ UNCHANGED <<att, sess>>

\* Mutation of DepositAfterUpload: the answer of the upload is not looked
\* at before the slip is linked.
DepositAfterUploadAlwaysLinks(r, params) == "link"

\* Where the call goes once the upload was answered r without a throw: the
\* PUT of the image field only for a 2xx answer with a file_url.
DepositAfterUpload(r, params) ==
    IF r = "ok" THEN "link" ELSE DepositAfterSlip(params)

\* POST upload_file of the slip image.  "nourl": 2xx without file_url.
\* A non-2xx answer is only logged; a throw reaches the catch block.
DepositUploadSlip ==
    /\ dpc = "upload"
    /\ dLog' = Append(dLog, Req("POST", "upload_file", depositName, "file"))
    /\ \E r \in Responses \cup {"nourl"} :
         /\ dSlip' = IF r = "ok" THEN "uploaded" ELSE r
         /\ IF r = "threw"
            THEN dpc' = DepositCatchPc(depositName) /\ dErr' = "upload"
            ELSE /\ dpc' = DepositAfterUpload(r, dParams)
                 /\ dErr' = dErr
    /\ UNCHANGED <<dParams, depositName, dIdx, dPayload>>
    /\ UNCHANGED <<calls, storeVars, screenVars, colVars>>
    /\ UNCHANGED <<dFullName>>
    /\ UNCHANGED other
    /\ UNCHANGED <<att, sess>>

\* PUT {deposit_slip_image: fileUrl}; the response is not looked at.
DepositLinkSlip ==
    /\ dpc = "link"
    /\ dLog' = Append(dLog,
                 Req("PUT", "FOS Cash Deposit", depositName, "deposit_slip_image"))
    /\ \E r \in Responses :
         /\ dSlip' = IF r = "ok" THEN "linked" ELSE "link_" \o r
         /\ deposits' = IF r = "ok" /\ Live(deposits, depositName)
                        THEN [deposits EXCEPT ![depositName].deposit_slip_image = "url"]
                        ELSE deposits
         /\ IF r = "threw"
            THEN dpc' = DepositCatchPc(depositName) /\ dErr' = "link"
            ELSE dpc' = DepositAfterSlip(dParams) /\ dErr' = dErr
    /\ UNCHANGED <<dParams, depositName, dIdx, dPayload>>
    /\ UNCHANGED <<calls, collections, screenVars, colVars>>
    /\ UNCHANGED <<userDoc, dFullName>>
    /\ UNCHANGED other
    /\ UNCHANGED <<att, sess>>

\* Mutation of FlagDeposited: the update reaches every collection of the
\* store.
FlagAllDeposited(store, name) ==
    [n \in 1..Len(store) |-> [store[n] EXCEPT !.is_deposited = 1]]

\* The store after an accepted PUT {is_deposited: 1} on one collection.
FlagDeposited(store, name) == [store EXCEPT ![name].is_deposited = 1]

\* One round of `for (const collection of selected_collections)`:
\* PUT {is_deposited: 1}, every failure caught and logged.
DepositFlagCollection ==
    /\ dpc = "flag"
    /\ LET collection == dParams.selected_collections[dIdx + 1] IN
       /\ dLog' = Append(dLog,
                    Req("PUT", "FOS Collection", collection.name, "is_deposited"))
       /\ \E r \in Responses :
            /\ r = "ok" => Live(collections, collection.name)
            /\ collections' =
                 IF r = "ok"
                 THEN FlagDeposited(collections, collection.name)
                 ELSE collections
            /\ dpc' = DepositAfterFlag(r, dIdx + 1,
                                       Len(dParams.selected_collections))
            /\ dErr' = IF dpc' \in {"flag", "fetch"} THEN dErr ELSE "flag"
    /\ dIdx' = dIdx + 1
    /\ UNCHANGED <<dParams, depositName, dPayload, dSlip>>
    /\ UNCHANGED <<calls, deposits, screenVars, colVars>>
    /\ UNCHANGED <<userDoc, dFullName>>
    /\ UNCHANGED other
    /\ UNCHANGED <<att, sess>>

\* GET of the created deposit.
DepositFetchCreated ==
    /\ dpc = "fetch"
    /\ dLog' = Append(dLog, Req("GET", "FOS Cash Deposit", depositName, "none"))
    /\ \E r \in Responses :
         /\ r = "ok" => Live(deposits, depositName)
         /\ IF r = "ok"
            THEN dpc' = "returned" /\ dErr' = dErr
            ELSE dpc' = DepositCatchPc(depositName) /\ dErr' = "fetch"
    /\ UNCHANGED <<dParams, depositName, dIdx, dPayload, dSlip>>
    /\ UNCHANGED <<calls, storeVars, screenVars, colVars>>
    /\ UNCHANGED <<dFullName>>
    /\ UNCHANGED other
    /\ UNCHANGED <<att, sess>>

\* deleteDepositDoc, first await: getCSRFToken.
DepositRollbackCsrf ==
    /\ dpc = "rb_csrf"
    /\ dLog' = Append(dLog, Req("GET", "get_logged_user", 0, "none"))
    /\ dpc' = "rb_delete"
    /\ UNCHANGED <<dParams, depositName, dIdx, dPayload, dSlip, dErr>>
    /\ UNCHANGED <<calls, storeVars, screenVars, colVars>>
    /\ UNCHANGED <<dFullName>>
    /\ UNCHANGED other
    /\ UNCHANGED <<att, sess>>

\* deleteDepositDoc, second await: DELETE, any failure swallowed; then the
\* catch block rethrows.
DepositRollbackDelete ==
    /\ dpc = "rb_delete"
    /\ dLog' = Append(dLog, Req("DELETE", "FOS Cash Deposit", depositName, "none"))
    /\ \E r \in Responses :
         /\ r = "ok" => Live(deposits, depositName)
         /\ deposits' = IF r = "ok"
                        THEN [deposits EXCEPT ![depositName].status = "deleted"]
                        ELSE deposits
    /\ dpc' = "thrown"
    /\ UNCHANGED <<dParams, depositName, dIdx, dPayload, dSlip, dErr>>
    /\ UNCHANGED <<calls, collections, screenVars, colVars>>
    /\ UNCHANGED <<userDoc, dFullName>>
    /\ UNCHANGED other
    /\ UNCHANGED <<att, sess>>

\* Mutation of SavingAfterSettle: setIsSaving(false) is the last statement
\* of the try block, not a finally block.
SavingAfterSettleInTryOnly(outcome) == outcome = "thrown"

\* isSaving once handleSave is over, the call having returned or thrown:
\* `finally { setIsSaving(false) }`.
SavingAfterSettle(outcome) == FALSE

\* handleSave after createCashDeposit returned: loadData(), clearForm(),
\* setIsAdding(false), and setIsSaving(false) in the finally block.
DepositSaveSucceeded ==
    /\ dpc = "returned"
    /\ \E r \in {"ok", "failed"} :
         undepositedCollections' =
             IF r = "ok" THEN fetchUndepositedCollections
             ELSE undepositedCollections
    /\ selectedCollections' = {}
    /\ isAdding' = FALSE
    /\ isSaving' = SavingAfterSettle("returned")
    /\ dpc' = "idle"
    /\ DepositLocalsReset
    /\ UNCHANGED <<calls, storeVars, colVars>>
    /\ UNCHANGED other
    /\ UNCHANGED <<att, sess>>

\* handleSave after createCashDeposit threw: an Alert, then the finally
\* block; the form and the selection stay as they are.
DepositSaveFailed ==
    /\ dpc = "thrown"
    /\ isSaving' = SavingAfterSettle("thrown")
    /\ dpc' = "idle"
    /\ DepositLocalsReset
    /\ UNCHANGED <<undepositedCollections, selectedCollections, isAdding>>
    /\ UNCHANGED <<calls, storeVars, colVars>>
    /\ UNCHANGED other
    /\ UNCHANGED <<att, sess>>

\* --------------------------------------------------- CollectionScreen
\* String.prototype.trim on the texts a field is given here.
Trim(s) == IF s = " " THEN "" ELSE s

\* parseFloat on the amount texts a field is given here: the number the
\* longest numeric prefix of the text denotes, NaN when there is none.
ParseFloat(s) ==
    CASE s = "1" -> [nan |-> FALSE, value |-> 1]
      [] s = "2" -> [nan |-> FALSE, value |-> 2]
      [] s = "0" -> [nan |-> FALSE, value |-> 0]
      [] s = "-5" -> [nan |-> FALSE, value |-> -5]
      [] s = "1abc" -> [nan |-> FALSE, value |-> 1]
      [] OTHER -> [nan |-> TRUE, value |-> 0]

\* The amount texts that are a decimal numeral from the first character to
\* the last.
NumericAmountTexts == {"0", "-5", "1", "2"}

ModeOptions == {"UPI", "Cash", "Cheque", "NEFT"}

\* formData a user can have set when Save is pressed.  The collection date
\* is not typed: it is the default of the render or what handleDateChange
\* stored, formatDateForDisplay of a Date either way.  handlePickReceipt
\* stores an asset only when it has a uri.
AllCollectionForms ==
    [fos_agent : {"", " ", "agent"},
     customer : {"", "cust"},
     amount : {"", "abc", "0", "-5", "1", "2", "1abc"},
     mode : ModeOptions,
     upi_txn_id : {"", " ", "u1"},
     cheque_no : {"", " ", "c1"},
     collection_datetime : {formatDateForDisplay(date) : date \in Clocks},
     is_deposited : BOOLEAN,
     receipt_image_asset : {"none", "uri"}]

\* The forms pressed in the runs that also exercise the deposit screen:
\* complete cash collections of the day with a receipt picked, the "Is
\* Deposited" switch turned on.  (Forms that handleSave refuses are the
\* subject of SpecForm.)
CollectionForms ==
    [fos_agent : {"agent"},
     customer : {"cust"},
     amount : {"1", "2"},
     mode : {"Cash"},
     upi_txn_id : {""},
     cheque_no : {""},
     collection_datetime : {formatDateForDisplay(RenderClock)},
     is_deposited : {TRUE},
     receipt_image_asset : {"uri"}]

BlankForm == [none |-> TRUE]

\* Mutation of ValidateCollectionForm: the two mode-specific checks are
\* missing.
ValidateCollectionFormNoModeChecks(form, erpDatetime) ==
    IF Trim(form.fos_agent) = "" \/ Trim(form.customer) = "" \/ Trim(form.amount) = ""
    THEN "Missing Fields"
    ELSE IF ParseFloat(Trim(form.amount)).nan \/ ParseFloat(Trim(form.amount)).value <= 0
    THEN "Invalid Amount"
    ELSE IF ~erpDatetime.ok
    THEN "Invalid Date"
    ELSE "ok"

\* The checks of handleSave, in order; the title of the Alert raised, or
\* "ok".  erpDatetime is what parseUserInputToErpDatetime made of the date.
ValidateCollectionForm(form, erpDatetime) ==
    IF Trim(form.fos_agent) = "" \/ Trim(form.customer) = "" \/ Trim(form.amount) = ""
    THEN "Missing Fields"
    ELSE IF ParseFloat(Trim(form.amount)).nan \/ ParseFloat(Trim(form.amount)).value <= 0
    THEN "Invalid Amount"
    ELSE IF form.mode = "UPI" /\ Trim(form.upi_txn_id) = ""
    THEN "Missing UPI Txn ID"
    ELSE IF form.mode = "Cheque" /\ Trim(form.cheque_no) = ""
    THEN "Missing Cheque No"
    ELSE IF ~erpDatetime.ok
    THEN "Invalid Date"
    ELSE "ok"

\* Mutation of CollectionSaveParams: the "Is Deposited" switch of the form
\* is passed on instead of the literal 0.
CollectionSaveParamsFromSwitch(form, erpDatetime) ==
    [fos_agent |-> Trim(form.fos_agent),
     customer |-> Trim(form.customer),
     amount |-> ParseFloat(Trim(form.amount)).value,
     mode |-> form.mode,
     upi_txn_id |-> Trim(form.upi_txn_id),
     cheque_no |-> Trim(form.cheque_no),
     collection_datetime |-> erpDatetime.text,
     is_deposited |-> IF form.is_deposited THEN 1 ELSE 0,
     receipt_image |-> form.receipt_image_asset]

\* The argument handleSave passes to createCollectionOnErp.
CollectionSaveParams(form, erpDatetime) ==
    [fos_agent |-> Trim(form.fos_agent),
     customer |-> Trim(form.customer),
     amount |-> ParseFloat(Trim(form.amount)).value,
     mode |-> form.mode,
     upi_txn_id |-> Trim(form.upi_txn_id),
     cheque_no |-> Trim(form.cheque_no),
     collection_datetime |-> erpDatetime.text,
     is_deposited |-> 0,
     receipt_image |-> form.receipt_image_asset]

CollectionLocalsReset ==
    /\ cForm' = BlankForm
    /\ cAlert' = ""
    /\ cParams' = NoParams
    /\ cPayload' = NoPayload
    /\ collectionName' = 0
    /\ cFail' = ""
    /\ cErr' = ""
    /\ cLog' = <<>>
    /\ cFullName' = ""
    /\ fileUrl' = NoFileUrl

\* handleSave up to the call of createCollectionOnErp, for the form typed.
CollectionHandleSaveWith(form) ==
    /\ cForm' = form
    /\ cLog' = <<>>
    /\ \E erpDatetime \in parseUserInputToErpDatetime(form.collection_datetime) :
         IF ValidateCollectionForm(form, erpDatetime) # "ok"
         THEN /\ cpc' = "alerted"
              /\ cAlert' = ValidateCollectionForm(form, erpDatetime)
              /\ cParams' = NoParams
              /\ calls' = calls
         ELSE /\ calls < MaxCalls
              /\ calls' = calls + 1
              /\ cpc' = "email"
              /\ cAlert' = ""
              /\ cParams' = CollectionSaveParams(form, erpDatetime)
    /\ UNCHANGED <<cPayload, collectionName, cFail, cErr, cFullName, fileUrl>>
    /\ UNCHANGED <<storeVars, screenVars, depVars>>

CollectionHandleSave ==
    /\ ClientIdle
    /\ \E form \in CollectionForms : CollectionHandleSaveWith(form)
    /\ UNCHANGED other
    /\ UNCHANGED <<att, sess>>

\* Save pressed on a form typed beforehand.
CollectionHandleSaveTyped ==
    /\ cpc = "typed" /\ dpc = "idle"
    /\ CollectionHandleSaveWith(cForm)
    /\ UNCHANGED other
    /\ UNCHANGED <<att, sess>>

\* The Alert of a refused Save is dismissed.
CollectionDismissAlert ==
    /\ cpc = "alerted"
    /\ cpc' = "idle"
    /\ CollectionLocalsReset
    /\ UNCHANGED <<calls, storeVars, screenVars, depVars>>
    /\ UNCHANGED other
    /\ UNCHANGED <<att, sess>>

\* ----------------------------------------------- createCollectionOnErp
\* Mutation of CollectionDocPayload: the mode-specific references are left
\* out of the document.
CollectionDocPayloadNoReference(params, fullName, erpDatetime) ==
    [fos_agent |-> IF params.fos_agent # "" THEN params.fos_agent ELSE fullName,
     customer |-> params.customer,
     collection_datetime |-> erpDatetime,
     amount |-> params.amount,
     mode |-> params.mode,
     upi_txn_id |-> "",
     cheque_no |-> "",
     is_deposited |-> IF params.is_deposited # 0 THEN 1 ELSE 0]

CollectionDocPayload(params, fullName, erpDatetime) ==
    [fos_agent |-> IF params.fos_agent # "" THEN params.fos_agent ELSE fullName,
     customer |-> params.customer,
     collection_datetime |-> erpDatetime,
     amount |-> params.amount,
     mode |-> params.mode,
     upi_txn_id |-> params.upi_txn_id,
     cheque_no |-> params.cheque_no,
     is_deposited |-> IF params.is_deposited # 0 THEN 1 ELSE 0]

\* The catch block: `if (collectionName) await deleteCollectionDoc(...)`.
CollectionCatchPc(name) == IF name # 0 THEN "rb_csrf" ELSE "thrown"

\* Mutation of CollectionRethrown: deleteCollectionDoc has no try/catch, so
\* a failing DELETE replaces the error.
CollectionRethrownDeleteError(error, r) == IF r = "threw" THEN "delete" ELSE error

\* The error the catch block rethrows once deleteCollectionDoc is over:
\* `throw error`, whatever the DELETE answered.
CollectionRethrown(error, r) == error

\* Mutation of CollectionAfterCreate: a collection created with a receipt
\* is handed to deleteCollectionDoc instead of the upload.
CollectionAfterCreateDeletes(params) ==
    IF params.receipt_image = "uri" THEN "rb_csrf" ELSE "fetch"

\* Where the call goes after the create request returned a name.
CollectionAfterCreate(params) ==
    IF params.receipt_image = "uri" THEN "upload" ELSE "fetch"

\* A step of the try block throws.
CollectionThrow(step) ==
    /\ cFail' = step
    /\ cpc' = CollectionCatchPc(collectionName)
    /\ cErr' = IF collectionName # 0 THEN cErr ELSE step

\* fetchLoggedInUserEmail
CollectionFetchEmail ==
    /\ cpc = "email"
    /\ cLog' = Append(cLog, Req("GET", "get_logged_user", 0, "none"))
    /\ \E r \in Responses \cup {"badbody"} :
         IF r = "ok"
         THEN cpc' = "fullname" /\ UNCHANGED <<cFail, cErr>>
         ELSE CollectionThrow("email")
    /\ UNCHANGED <<cForm, cAlert, cParams, cPayload, collectionName>>
    /\ UNCHANGED <<calls, storeVars, screenVars, depVars>>
    /\ UNCHANGED <<cFullName, fileUrl>>
    /\ UNCHANGED other
    /\ UNCHANGED <<att, sess>>

\* fetchUserFullName: a non-2xx answer falls back to the email.
CollectionFetchFullName ==
    /\ cpc = "fullname"
    /\ cLog' = Append(cLog, Req("GET", "User", 0, "none"))
    /\ \E r \in Responses :
         IF r = "threw"
         THEN CollectionThrow("fullname") /\ cFullName' = cFullName
         ELSE /\ cpc' = "csrf"
              /\ cFullName' = fetchUserFullName(r, userDoc, LoginEmail)
              /\ UNCHANGED <<cFail, cErr>>
    /\ UNCHANGED <<cForm, cAlert, cParams, cPayload, collectionName, fileUrl>>
    /\ UNCHANGED <<calls, storeVars, screenVars, depVars>>
    /\ UNCHANGED other
    /\ UNCHANGED <<att, sess>>

\* getCSRFToken (never throws), then the datetime is normalised and the
\* payload is built.  `fullName` is read here for the last time: the model
\* forgets it.
CollectionGetCsrfAndBuild ==
    /\ cpc = "csrf"
    /\ cLog' = Append(cLog, Req("GET", "get_logged_user", 0, "none"))
    /\ \E now \in Clocks :
       \E normalized \in NormalizedCollectionDatetime(cParams.collection_datetime) :
         IF ~normalized.ok
         THEN CollectionThrow("date") /\ cPayload' = cPayload
         ELSE /\ cpc' = "create"
              /\ cPayload' =
                   CollectionDocPayload(cParams, cFullName,
                       IF normalized.defined THEN normalized.text
                       ELSE formatDateTimeForErp(now))
              /\ UNCHANGED <<cFail, cErr>>
    /\ cFullName' = ""
    /\ UNCHANGED <<cForm, cAlert, cParams, collectionName, fileUrl>>
    /\ UNCHANGED <<calls, storeVars, screenVars, depVars>>
    /\ UNCHANGED other
    /\ UNCHANGED <<att, sess>>

\* POST of the collection.  "noname": 2xx without data.name.
CollectionCreate ==
    /\ cpc = "create"
    /\ cLog' = Append(cLog, Req("POST", "FOS Collection", 0, "payload"))
    /\ \E r \in Responses \cup {"noname"} :
         \/ /\ r = "ok"
            /\ collections' = Append(collections, NewCollection(cPayload))
            /\ collectionName' = Len(collections) + 1
            /\ cpc' = CollectionAfterCreate(cParams)
            /\ UNCHANGED <<cFail, cErr>>
         \/ /\ r = "noname"
            /\ collections' = Append(collections, NewCollection(cPayload))
            /\ collectionName' = 0
            /\ cFail' = "noname"
            /\ cpc' = CollectionCatchPc(0)
            /\ cErr' = "noname"
         \/ /\ r \in {"rejected", "threw"}
            /\ CollectionThrow("create")
            /\ UNCHANGED <<collections, collectionName>>
    /\ UNCHANGED <<cForm, cAlert, cParams, cPayload>>
    /\ UNCHANGED <<calls, deposits, screenVars, depVars>>
    /\ UNCHANGED <<userDoc, cFullName, fileUrl>>
    /\ UNCHANGED other
    /\ UNCHANGED <<att, sess>>

\* The file_url the server gives the receipt uploaded for a document.
ReceiptFileUrl(name) == [file_url |-> "receipt", docname |-> name]

\* POST upload_file of the receipt.  "nourl": 2xx without file_url.
CollectionUploadReceipt ==
    /\ cpc = "upload"
    /\ cLog' = Append(cLog, Req("POST", "upload_file", collectionName, "file"))
    /\ \E r \in Responses \cup {"nourl"} :
         IF r = "ok"
         THEN /\ cpc' = "link"
              /\ fileUrl' = ReceiptFileUrl(collectionName)
              /\ UNCHANGED <<cFail, cErr>>
         ELSE CollectionThrow("upload") /\ fileUrl' = fileUrl
    /\ UNCHANGED <<cForm, cAlert, cParams, cPayload, collectionName, cFullName>>
    /\ UNCHANGED <<calls, storeVars, screenVars, depVars>>
    /\ UNCHANGED other
    /\ UNCHANGED <<att, sess>>

\* Mutation of CollectionAfterLink: the answer of the PUT that links the
\* receipt is not looked at.
CollectionAfterLinkUnchecked(r) == "fetch"

\* Where the call goes once the PUT of receipt_image was answered r.
CollectionAfterLink(r) == IF r = "ok" THEN "fetch" ELSE "catch"

\* PUT {receipt_image: fileUrl}
CollectionLinkReceipt ==
    /\ cpc = "link"
    /\ cLog' = Append(cLog,
                 Req("PUT", "FOS Collection", collectionName, "receipt_image"))
    /\ \E r \in Responses :
         /\ r = "ok" => Live(collections, collectionName)
         /\ collections' =
              IF r = "ok"
              THEN [collections EXCEPT ![collectionName].receipt_image = fileUrl]
              ELSE collections
         /\ IF CollectionAfterLink(r) = "fetch"
            THEN cpc' = "fetch" /\ UNCHANGED <<cFail, cErr>>
            ELSE CollectionThrow("link")
    /\ UNCHANGED <<cForm, cAlert, cParams, cPayload, collectionName, cFullName, fileUrl>>
    /\ UNCHANGED <<calls, deposits, userDoc, screenVars, depVars>>
    /\ UNCHANGED other
    /\ UNCHANGED <<att, sess>>

\* GET of the created collection.
CollectionFetchCreated ==
    /\ cpc = "fetch"
    /\ cLog' = Append(cLog, Req("GET", "FOS Collection", collectionName, "none"))
    /\ \E r \in Responses :
         /\ r = "ok" => Live(collections, collectionName)
         /\ IF r = "ok"
            THEN cpc' = "returned" /\ UNCHANGED <<cFail, cErr>>
            ELSE CollectionThrow("fetch")
    /\ UNCHANGED <<cForm, cAlert, cParams, cPayload, collectionName>>
    /\ UNCHANGED <<calls, storeVars, screenVars, depVars>>
    /\ UNCHANGED <<cFullName, fileUrl>>
    /\ UNCHANGED other
    /\ UNCHANGED <<att, sess>>

\* deleteCollectionDoc: the headers are built first, so getCSRFToken is
\* awaited before the DELETE is sent.
CollectionRollbackCsrf ==
    /\ cpc = "rb_csrf"
    /\ cLog' = Append(cLog, Req("GET", "get_logged_user", 0, "none"))
    /\ cpc' = "rb_delete"
    /\ UNCHANGED <<cForm, cAlert, cParams, cPayload, collectionName, cFail, cErr>>
    /\ UNCHANGED <<calls, storeVars, screenVars, depVars>>
    /\ UNCHANGED <<cFullName, fileUrl>>
    /\ UNCHANGED other
    /\ UNCHANGED <<att, sess>>

\* deleteCollectionDoc: the DELETE, any failure swallowed; then the catch
\* block rethrows.
CollectionRollbackDelete ==
    /\ cpc = "rb_delete"
    /\ cLog' = Append(cLog, Req("DELETE", "FOS Collection", collectionName, "none"))
    /\ \E r \in Responses :
         /\ r = "ok" => Live(collections, collectionName)
         /\ collections' = IF r = "ok"
                           THEN [collections EXCEPT ![collectionName].status = "deleted"]
                           ELSE collections
         /\ cErr' = CollectionRethrown(cFail, r)
    /\ cpc' = "thrown"
    /\ UNCHANGED <<cForm, cAlert, cParams, cPayload, collectionName, cFail>>
    /\ UNCHANGED <<calls, deposits, screenVars, depVars>>
    /\ UNCHANGED <<userDoc, cFullName, fileUrl>>
    /\ UNCHANGED other
    /\ UNCHANGED <<att, sess>>

\* handleSave after createCollectionOnErp returned: loadCollections(),
\* clearForm(), setIsAdding(false), then the finally block.
CollectionSaveSucceeded ==
    /\ cpc = "returned"
    /\ cpc' = "idle"
    /\ CollectionLocalsReset
    /\ UNCHANGED <<calls, storeVars, screenVars, depVars>>
    /\ UNCHANGED other
    /\ UNCHANGED <<att, sess>>

\* handleSave after createCollectionOnErp threw: an Alert, then the
\* finally block.
CollectionSaveFailed ==
    /\ cpc = "thrown"
    /\ cpc' = "idle"
    /\ CollectionLocalsReset
    /\ UNCHANGED <<calls, storeVars, screenVars, depVars>>
    /\ UNCHANGED other
    /\ UNCHANGED <<att, sess>>

\* ------------------------------------------------------ specification
Init ==
    /\ calls = 0
    /\ collections = <<>>
    /\ deposits = <<>>
    /\ undepositedCollections = <<>>
    /\ selectedCollections = {}
    /\ isAdding = FALSE
    /\ isSaving = FALSE
    /\ dpc = "idle"
    /\ dParams = NoParams
    /\ depositName = 0
    /\ dIdx = 0
    /\ dPayload = NoPayload
    /\ dSlip = "none"
    /\ dErr = ""
    /\ dLog = <<>>
    /\ cpc = "idle"
    /\ cForm = BlankForm
    /\ cAlert = ""
    /\ cParams = NoParams
    /\ cPayload = NoPayload
    /\ collectionName = 0
    /\ cFail = ""
    /\ cErr = ""
    /\ cLog = <<>>
    /\ dFullName = ""
    /\ cFullName = ""
    /\ fileUrl = NoFileUrl
    /\ other = NoOtherCall
    /\ att = NoAttendance
    /\ sess = NoSession
    /\ userDoc = NamedUserDoc

Next ==
    \/ loadData
    \/ AddDeposit
    \/ CancelDeposit
    \/ toggleCollection
    \/ DepositHandleSave
    \/ DepositDismissAlert
    \/ DepositFetchEmail
    \/ DepositFetchFullName
    \/ DepositGetCsrfAndBuild
    \/ DepositCreate
    \/ DepositUploadSlip
    \/ DepositLinkSlip
    \/ DepositFlagCollection
    \/ DepositFetchCreated
    \/ DepositRollbackCsrf
    \/ DepositRollbackDelete
    \/ DepositSaveSucceeded
    \/ DepositSaveFailed
    \/ CollectionHandleSave
    \/ CollectionFetchEmail
    \/ CollectionFetchFullName
    \/ CollectionGetCsrfAndBuild
    \/ CollectionCreate
    \/ CollectionUploadReceipt
    \/ CollectionLinkReceipt
    \/ CollectionFetchCreated
    \/ CollectionRollbackCsrf
    \/ CollectionRollbackDelete
    \/ CollectionSaveSucceeded
    \/ CollectionSaveFailed

Spec == Init /\ [][Next]_vars

\* One Save of the collection form, for every form a user can have typed,
\* against an empty remote store.
InitForm ==
    /\ calls = 0
    /\ collections = <<>>
    /\ deposits = <<>>
    /\ undepositedCollections = <<>>
    /\ selectedCollections = {}
    /\ isAdding = FALSE
    /\ isSaving = FALSE
    /\ dpc = "idle"
    /\ dParams = NoParams
    /\ depositName = 0
    /\ dIdx = 0
    /\ dPayload = NoPayload
    /\ dSlip = "none"
    /\ dErr = ""
    /\ dLog = <<>>
    /\ cpc = "typed"
    /\ cForm \in AllCollectionForms
    /\ cAlert = ""
    /\ cParams = NoParams
    /\ cPayload = NoPayload
    /\ collectionName = 0
    /\ cFail = ""
    /\ cErr = ""
    /\ cLog = <<>>
    /\ dFullName = ""
    /\ cFullName = ""
    /\ fileUrl = NoFileUrl
    /\ other = NoOtherCall
    /\ att = NoAttendance
    /\ sess = NoSession
    /\ userDoc = NamedUserDoc

NextForm ==
    \/ CollectionHandleSaveTyped
    \/ CollectionDismissAlert
    \/ CollectionFetchEmail
    \/ CollectionFetchFullName
    \/ CollectionGetCsrfAndBuild
    \/ CollectionCreate
    \/ CollectionUploadReceipt
    \/ CollectionLinkReceipt
    \/ CollectionFetchCreated
    \/ CollectionRollbackCsrf
    \/ CollectionRollbackDelete
    \/ CollectionSaveSucceeded
    \/ CollectionSaveFailed

SpecForm == InitForm /\ [][NextForm]_vars

\* Free texts for a date field: day, month and year in either order, with
\* one and two digits, out of range, with the separators the parsers know
\* and one they do not, alone or followed by a time.
DayMonthYearTexts ==
    {d \o <<s1>> \o m \o <<s2>> \o y :
        d \in {<<"2", "4">>, <<"5">>, <<"3", "1">>},
        m \in {<<"1", "1">>, <<"2">>, <<"1", "3">>},
        s1 \in {"/", "-", "."},
        s2 \in {"/", "-"},
        y \in {<<"2", "0", "2", "5">>, <<"2", "5">>}}

YearMonthDayTexts ==
    {y \o <<s1>> \o m \o <<"-">> \o d :
        y \in {<<"2", "0", "2", "5">>, <<"2", "0", "2", "4">>},
        s1 \in {"-", "/"},
        m \in {<<"1", "1">>, <<"0", "2">>, <<"1", "3">>, <<"2">>},
        d \in {<<"2", "4">>, <<"3", "0">>, <<"0", "1">>}}

TimeTexts ==
    {<<>>,
     <<" ", "1", "0", ":", "3", "0">>,
     <<" ", "9", ":", "0", "5", ":", "0", "7">>,
     <<"T", "1", "0", ":", "3", "0", ":", "0", "0">>,
     <<" ", "1", "0", "h">>}

FreeDateTexts ==
    {<<>>, <<" ">>, <<"s", "o", "o", "n">>}
    \cup {date \o time : date \in DayMonthYearTexts \cup YearMonthDayTexts,
                         time \in TimeTexts}

\* Texts typed into the DEPOSIT DATE field.
DepositDateTexts ==
    {<<>>, <<" ">>, <<"s", "o", "o", "n">>, <<" ", "2", "4", "/", "1", "1", "/", "2", "0", "2", "5">>}
    \cup DayMonthYearTexts \cup YearMonthDayTexts

\* Params of createCashDeposit calls made directly: the agent may be left
\* out, the selection may be empty or name a collection the store lacks.
DirectDepositParams ==
    [fos_agent : {"", "agent"},
     deposit_date : {formatDateForErp(RenderClock), <<>>},
     selected_collections : {<<>>, <<[name |-> 1, amount |-> 1]>>},
     deposit_slip_image : {"none", "nouri", "uri"}]

\* Params of createCashDeposit calls with the date as typed on the form.
DatedDepositParams ==
    [fos_agent : {"agent"},
     deposit_date : DepositDateTexts,
     selected_collections : {<<[name |-> 1, amount |-> 1]>>},
     deposit_slip_image : {"none"}]

\* Params of createCollectionOnErp calls made directly: the agent may be
\* left out, the datetime is any text.
DirectCollectionParams ==
    [fos_agent : {"", "agent"},
     customer : {"cust"},
     amount : {1},
     mode : {"Cash"},
     upi_txn_id : {""},
     cheque_no : {""},
     collection_datetime : {formatDateTimeForErp(RenderClock), <<>>},
     is_deposited : {0},
     receipt_image : {"none", "nouri", "uri"}]

DatedCollectionParams ==
    [fos_agent : {"agent"},
     customer : {"cust"},
     amount : {1},
     mode : {"Cash"},
     upi_txn_id : {""},
     cheque_no : {""},
     collection_datetime : FreeDateTexts,
     is_deposited : {0},
     receipt_image : {"none"}]

\* A collection form whose date is a free text, for parseUserInputToErpDatetime.
DatedCollectionForms ==
    [fos_agent : {"agent"},
     customer : {"cust"},
     amount : {"1"},
     mode : {"Cash"},
     upi_txn_id : {""},
     cheque_no : {""},
     collection_datetime : FreeDateTexts,
     is_deposited : {FALSE},
     receipt_image_asset : {"none"}]

\* The state before any handler ran, for a given User document.
Constructed(doc) ==
    /\ calls = 0
    /\ collections = <<>>
    /\ deposits = <<>>
    /\ userDoc = doc
    /\ undepositedCollections = <<>>
    /\ selectedCollections = {}
    /\ isAdding = FALSE
    /\ isSaving = FALSE
    /\ depositName = 0
    /\ dIdx = 0
    /\ dPayload = NoPayload
    /\ dSlip = "none"
    /\ dErr = ""
    /\ dLog = <<>>
    /\ dFullName = ""
    /\ cAlert = ""
    /\ cPayload = NoPayload
    /\ collectionName = 0
    /\ cFail = ""
    /\ cErr = ""
    /\ cLog = <<>>
    /\ cFullName = ""
    /\ fileUrl = NoFileUrl
    /\ other = NoOtherCall
    /\ att = NoAttendance
    /\ sess = NoSession

\* One call of a service, or one Save of a collection form with a free-text
\* date, against an empty remote store.
InitCalls ==
    \/ /\ \E doc \in UserDocs : Constructed(doc)
       /\ dpc = "email" /\ dParams \in DirectDepositParams
       /\ cpc = "idle" /\ cForm = BlankForm /\ cParams = NoParams
    \/ /\ Constructed(NamedUserDoc)
       /\ dpc = "email" /\ dParams \in DatedDepositParams
       /\ cpc = "idle" /\ cForm = BlankForm /\ cParams = NoParams
    \/ /\ \E doc \in UserDocs : Constructed(doc)
       /\ cpc = "email" /\ cParams \in DirectCollectionParams
       /\ dpc = "idle" /\ dParams = NoParams /\ cForm = BlankForm
    \/ /\ Constructed(NamedUserDoc)
       /\ cpc = "email" /\ cParams \in DatedCollectionParams
       /\ dpc = "idle" /\ dParams = NoParams /\ cForm = BlankForm
    \/ /\ Constructed(NamedUserDoc)
       /\ cpc = "typed" /\ cForm \in DatedCollectionForms
       /\ dpc = "idle" /\ dParams = NoParams /\ cParams = NoParams

NextCalls ==
    \/ DepositFetchEmail
    \/ DepositFetchFullName
    \/ DepositGetCsrfAndBuild
    \/ DepositCreate
    \/ DepositUploadSlip
    \/ DepositLinkSlip
    \/ DepositFlagCollection
    \/ DepositFetchCreated
    \/ DepositRollbackCsrf
    \/ DepositRollbackDelete
    \/ CollectionHandleSaveTyped
    \/ CollectionFetchEmail
    \/ CollectionFetchFullName
    \/ CollectionGetCsrfAndBuild
    \/ CollectionCreate
    \/ CollectionUploadReceipt
    \/ CollectionLinkReceipt
    \/ CollectionFetchCreated
    \/ CollectionRollbackCsrf
    \/ CollectionRollbackDelete

SpecCalls == InitCalls /\ [][NextCalls]_vars

\* ------------------------------------------------------ a second device
\* createCashDeposit running on a second device for the same login, reduced
\* to the requests that change or read the documents it names: the create
\* request, the is_deposited updates, the GET of the created deposit and
\* the rollback.  The call is given no slip image.
OtherCreate ==
    /\ other.pc = "create"
    /\ \E r \in Responses :
         IF r = "ok"
         THEN /\ deposits' =
                   Append(deposits,
                          NewDeposit([amount_deposited |-> TotalAmount(other.selected_collections),
                                      collections |-> CollectionItems(other.selected_collections)]))
              /\ other' = [other EXCEPT !.pc = DepositAfterCreate([deposit_slip_image |-> "none",
                                                 selected_collections |-> other.selected_collections]),
                                        !.depositName = Len(deposits) + 1]
         ELSE /\ deposits' = deposits
              /\ other' = [other EXCEPT !.pc = "thrown"]
    /\ UNCHANGED <<calls, collections, userDoc, screenVars, depVars, colVars>>
    /\ UNCHANGED <<att, sess>>

OtherFlagCollection ==
    /\ other.pc = "flag"
    /\ LET collection == other.selected_collections[other.idx + 1] IN
       \E r \in Responses :
            /\ r = "ok" => Live(collections, collection.name)
            /\ collections' =
                 IF r = "ok"
                 THEN FlagDeposited(collections, collection.name)
                 ELSE collections
            /\ other' = [other EXCEPT
                           !.pc = DepositAfterFlag(r, other.idx + 1,
                                                   Len(other.selected_collections)),
                           !.idx = other.idx + 1]
    /\ UNCHANGED <<calls, deposits, userDoc, screenVars, depVars, colVars>>
    /\ UNCHANGED <<att, sess>>

OtherFetchCreated ==
    /\ other.pc = "fetch"
    /\ \E r \in Responses :
         /\ r = "ok" => Live(deposits, other.depositName)
         /\ other' = [other EXCEPT !.pc = IF r = "ok" THEN "returned" ELSE "rb_delete"]
    /\ UNCHANGED <<calls, storeVars, screenVars, depVars, colVars>>
    /\ UNCHANGED <<att, sess>>

OtherRollbackDelete ==
    /\ other.pc = "rb_delete"
    /\ \E r \in Responses :
         /\ r = "ok" => Live(deposits, other.depositName)
         /\ deposits' = IF r = "ok"
                        THEN [deposits EXCEPT ![other.depositName].status = "deleted"]
                        ELSE deposits
    /\ other' = [other EXCEPT !.pc = "thrown"]
    /\ UNCHANGED <<calls, collections, userDoc, screenVars, depVars, colVars>>
    /\ UNCHANGED <<att, sess>>

\* An undeposited cash collection of the store, created earlier.
StoredCollection(amount) ==
    NewCollection([amount |-> amount, mode |-> "Cash", upi_txn_id |-> "",
                   cheque_no |-> "", is_deposited |-> 0])

\* What fetchUndepositedCollections returned to both devices: the two
\* collections of the store.
FetchedByBoth == <<[name |-> 2, amount |-> 2], [name |-> 1, amount |-> 1]>>

\* The non-empty selections of that list, in list order.
SelectionsOfFetched ==
    {FetchedByBoth, <<FetchedByBoth[1]>>, <<FetchedByBoth[2]>>}

\* Two devices have fetched the list of undeposited collections, each has
\* made a selection, and both call createCashDeposit.
InitDevices ==
    /\ calls = 2
    /\ collections = <<StoredCollection(1), StoredCollection(2)>>
    /\ deposits = <<>>
    /\ userDoc = NamedUserDoc
    /\ undepositedCollections = FetchedByBoth
    /\ \E sel \in SelectionsOfFetched :
         /\ selectedCollections = {sel[i].name : i \in 1..Len(sel)}
         /\ dParams = [fos_agent |-> "agent",
                       deposit_date |-> formatDateForErp(RenderClock),
                       selected_collections |-> sel,
                       deposit_slip_image |-> "none"]
    /\ isAdding = TRUE
    /\ isSaving = TRUE
    /\ dpc = "email"
    /\ depositName = 0
    /\ dIdx = 0
    /\ dPayload = NoPayload
    /\ dSlip = "none"
    /\ dErr = ""
    /\ dLog = <<>>
    /\ dFullName = ""
    /\ cpc = "idle"
    /\ cForm = BlankForm
    /\ cAlert = ""
    /\ cParams = NoParams
    /\ cPayload = NoPayload
    /\ collectionName = 0
    /\ cFail = ""
    /\ cErr = ""
    /\ cLog = <<>>
    /\ cFullName = ""
    /\ fileUrl = NoFileUrl
    /\ \E sel \in SelectionsOfFetched :
         other = [pc |-> "create", selected_collections |-> sel,
                  depositName |-> 0, idx |-> 0]
    /\ att = NoAttendance
    /\ sess = NoSession

NextDevices ==
    \/ DepositFetchEmail
    \/ DepositFetchFullName
    \/ DepositGetCsrfAndBuild
    \/ DepositCreate
    \/ DepositFlagCollection
    \/ DepositFetchCreated
    \/ DepositRollbackCsrf
    \/ DepositRollbackDelete
    \/ OtherCreate
    \/ OtherFlagCollection
    \/ OtherFetchCreated
    \/ OtherRollbackDelete

SpecDevices == InitDevices /\ [][NextDevices]_vars

\* ------------------------------------------------- markAttendanceOnErp
\* ATTENDANCE_OPTIONS ids.
AttendanceTypeIds == {"FULL_DAY", "LEAVE", "HALF_DAY_FIRST", "HALF_DAY_SECOND"}

\* getStatusForType
getStatusForType(typeId) == IF typeId = "LEAVE" THEN "Leave" ELSE "Present"

\* The file_url the upload of a selfie returns.
SelfieFileUrl(name) == [file_url |-> "selfie", docname |-> name]

AttendanceOtherVars == <<storeVars, screenVars, depVars, colVars, other, sess>>

\* The catch block: `if (attendanceName) await deleteAttendanceDoc(...)`.
AttendanceCatchPc(name) == IF name # 0 THEN "rb_delete" ELSE "thrown"

\* Mutation of AttendanceRethrown: deleteAttendanceDoc has no try/catch, so
\* a throwing DELETE replaces the error.
AttendanceRethrownDeleteError(error, r) == IF r = "threw" THEN "delete" ELSE error

\* The error the catch block rethrows once deleteAttendanceDoc is over:
\* `throw error`, whatever the DELETE did.
AttendanceRethrown(error, r) == error

\* markAttendanceOnErp is called: the selfie check comes before the try
\* block and before any request.
AttendanceMark ==
    /\ att.pc = "idle"
    /\ calls < MaxCalls
    /\ calls' = calls + 1
    /\ \E typeId \in AttendanceTypeIds, selfie \in {"none", "nouri", "uri"} :
         att' = [att EXCEPT
                   !.attendanceTypeId = typeId,
                   !.selfie = selfie,
                   !.attendanceName = 0,
                   !.rollback = "",
                   !.log = <<>>,
                   !.fail = IF selfie = "uri" THEN "" ELSE "selfie",
                   !.err = IF selfie = "uri" THEN "" ELSE "selfie",
                   !.pc = IF selfie = "uri" THEN "email" ELSE "thrown"]
    /\ UNCHANGED AttendanceOtherVars

\* fetchLoggedInUserEmail of the attendance service
AttendanceFetchEmail ==
    /\ att.pc = "email"
    /\ \E r \in Responses \cup {"badbody"} :
         LET sent == [att EXCEPT !.log = Append(att.log,
                                     Req("GET", "get_logged_user", 0, "none"))]
         IN  att' = IF r = "ok"
                    THEN [sent EXCEPT !.pc = "fullname"]
                    ELSE [sent EXCEPT !.fail = "email", !.err = "email", !.pc = AttendanceCatchPc(att.attendanceName)]
    /\ UNCHANGED <<calls, AttendanceOtherVars>>

\* fetchUserFullName of the attendance service: a non-2xx answer throws.
AttendanceFetchFullName ==
    /\ att.pc = "fullname"
    /\ \E r \in Responses :
         LET sent == [att EXCEPT !.log = Append(att.log, Req("GET", "User", 0, "none"))]
         IN  att' = IF r = "ok"
                    THEN [sent EXCEPT !.pc = "create"]
                    ELSE [sent EXCEPT !.fail = "fullname", !.err = "fullname",
                                      !.pc = AttendanceCatchPc(att.attendanceName)]
    /\ UNCHANGED <<calls, AttendanceOtherVars>>

\* POST of the attendance document.  "noname": 2xx without data.name.
AttendanceCreate ==
    /\ att.pc = "create"
    /\ \E r \in Responses \cup {"noname"} :
         LET sent == [att EXCEPT !.log = Append(att.log,
                                     Req("POST", "FOS Attendance", 0, "payload"))]
             doc == [status |-> "live",
                     attendance_status |-> getStatusForType(att.attendanceTypeId),
                     selfie |-> NoFileUrl]
         IN  att' =
               CASE r = "ok" ->
                      [sent EXCEPT !.docs = Append(att.docs, doc),
                                   !.attendanceName = Len(att.docs) + 1,
                                   !.pc = "upload"]
                 [] r = "noname" ->
                      [sent EXCEPT !.docs = Append(att.docs, doc),
                                   !.fail = "noname", !.err = "noname", !.pc = AttendanceCatchPc(att.attendanceName)]
                 [] OTHER ->
                      [sent EXCEPT !.fail = "create", !.err = "create", !.pc = AttendanceCatchPc(att.attendanceName)]
    /\ UNCHANGED <<calls, AttendanceOtherVars>>

\* uploadSelfieFile.  "nourl": 2xx without file_url.
AttendanceUploadSelfie ==
    /\ att.pc = "upload"
    /\ \E r \in Responses \cup {"nourl"} :
         LET sent == [att EXCEPT !.log = Append(att.log,
                                     Req("POST", "upload_file", att.attendanceName, "file"))]
         IN  att' = IF r = "ok"
                    THEN [sent EXCEPT !.pc = "set_value"]
                    ELSE [sent EXCEPT !.fail = IF r = "nourl" THEN "file_url" ELSE "upload",
                                      !.pc = AttendanceCatchPc(att.attendanceName)]
    /\ UNCHANGED <<calls, AttendanceOtherVars>>

\* POST frappe.client.set_value of the selfie field
AttendanceSetSelfie ==
    /\ att.pc = "set_value"
    /\ \E r \in Responses :
         LET sent == [att EXCEPT !.log = Append(att.log,
                                     Req("POST", "set_value", att.attendanceName, "selfie"))]
         IN  att' = IF r = "ok"
                    THEN [sent EXCEPT !.docs[att.attendanceName].selfie =
                                          SelfieFileUrl(att.attendanceName),
                                      !.pc = "returned"]
                    ELSE [sent EXCEPT !.fail = "set_value", !.pc = AttendanceCatchPc(att.attendanceName)]
    /\ UNCHANGED <<calls, AttendanceOtherVars>>

\* deleteAttendanceDoc: one DELETE, its answer not looked at, a throw
\* caught and logged; then `throw error`.
AttendanceRollbackDelete ==
    /\ att.pc = "rb_delete"
    /\ \E r \in Responses :
         LET sent == [att EXCEPT !.log = Append(att.log,
                                     Req("DELETE", "FOS Attendance", att.attendanceName, "none"))]
         IN  att' = [sent EXCEPT
                       !.docs[att.attendanceName].status =
                           IF r = "ok" THEN "deleted" ELSE @,
                       !.rollback = r,
                       !.err = AttendanceRethrown(att.fail, r),
                       !.pc = "thrown"]
    /\ UNCHANGED <<calls, AttendanceOtherVars>>

\* The caller has seen the result or the error of the call.
AttendanceSettled ==
    /\ att.pc \in {"returned", "thrown"}
    /\ att' = [att EXCEPT !.pc = "idle"]
    /\ UNCHANGED <<calls, AttendanceOtherVars>>

NextAttendance ==
    \/ AttendanceMark
    \/ AttendanceFetchEmail
    \/ AttendanceFetchFullName
    \/ AttendanceCreate
    \/ AttendanceUploadSelfie
    \/ AttendanceSetSelfie
    \/ AttendanceRollbackDelete
    \/ AttendanceSettled

SpecAttendance == Init /\ [][NextAttendance]_vars

\* ------------------------------------- loginWithPassword, handleLogout
\* HTTP statuses the login endpoint answers with.
LoginStatuses == {200, 201, 401, 500}

\* Bodies of a login answer: JSON with full_name, JSON without, text that is
\* not JSON, and a body whose read (response.text()) throws.
LoginBodies == {"json_full_name", "json", "text", "unreadable"}

\* What `await fetch(loginUrl, ...)` can do: reject, or answer.
LoginResponses ==
    {[kind |-> "threw", status |-> 0, body |-> "none"]}
        \cup [kind : {"answered"}, status : LoginStatuses, body : LoginBodies]

\* response.ok
ResponseOk(status) == status \in 200..299

\* The early return on an empty username or password, and the catch block:
\* ok false, statusCode null (0 here), raw null.
LoginFailureNoStatus ==
    [thrown |-> FALSE, ok |-> FALSE, statusCode |-> 0, fullName |-> NoFullName]

\* Mutation of loginResult: no try/catch around the fetch, so a rejected
\* fetch or an unreadable body is thrown to the caller.
loginResultNoCatch(response) ==
    IF response.kind = "threw" \/ response.body = "unreadable"
    THEN [LoginFailureNoStatus EXCEPT !.thrown = TRUE]
    ELSE [thrown |-> FALSE, ok |-> ResponseOk(response.status),
          statusCode |-> response.status,
          fullName |-> IF response.body = "json_full_name" THEN "Agent" ELSE NoFullName]

\* The LoginResult of the try block of loginWithPassword for an answer of
\* fetch: `ok: response.ok, statusCode: response.status,
\* fullName: json?.full_name`; whatever throws inside ends in the catch.
loginResult(response) ==
    IF response.kind = "threw" \/ response.body = "unreadable"
    THEN LoginFailureNoStatus
    ELSE [thrown |-> FALSE, ok |-> ResponseOk(response.status),
          statusCode |-> response.status,
          fullName |-> IF response.body = "json_full_name" THEN "Agent" ELSE NoFullName]

SessionOtherVars == <<storeVars, screenVars, depVars, colVars, other, att>>

\* loginWithPassword(username, password) is called from the login screen
\* (shown while logged out): `if (!username || !password) return {...}`
\* comes before the try block and the fetch.
LoginCalled ==
    /\ sess.pc = "idle"
    /\ ~sess.isLoggedIn
    /\ calls < MaxCalls
    /\ calls' = calls + 1
    /\ \E username \in {"", "agent"}, password \in {"", "secret"} :
         sess' = [sess EXCEPT
                    !.username = username,
                    !.password = password,
                    !.response = NoResponse,
                    !.log = <<>>,
                    !.result = IF username = "" \/ password = ""
                               THEN LoginFailureNoStatus ELSE NoLoginResult,
                    !.pc = IF username = "" \/ password = ""
                           THEN "login_returned" ELSE "login_fetch"]
    /\ UNCHANGED SessionOtherVars

\* POST /api/method/login and the reading of its answer
LoginFetch ==
    /\ sess.pc = "login_fetch"
    /\ \E response \in LoginResponses :
         sess' = [sess EXCEPT
                    !.log = Append(sess.log, Req("POST", "login", 0, "usr_pwd")),
                    !.response = response,
                    !.result = loginResult(response),
                    !.pc = "login_returned"]
    /\ UNCHANGED <<calls, SessionOtherVars>>

\* handleLoginPress after the await: `if (result.ok) onLoginSuccess(
\* result.fullName)`, and handleLoginSuccess of the App root.
LoginReturned ==
    /\ sess.pc = "login_returned"
    /\ sess' = [sess EXCEPT
                  !.isLoggedIn = IF sess.result.ok THEN TRUE ELSE @,
                  !.fullName = IF sess.result.ok THEN sess.result.fullName ELSE @,
                  !.pc = "idle"]
    /\ UNCHANGED <<calls, SessionOtherVars>>

\* The drawer's Logout is pressed (the drawer exists while logged in).
LogoutPressed ==
    /\ sess.pc = "idle"
    /\ sess.isLoggedIn
    /\ sess' = [sess EXCEPT !.pc = "logout_fetch", !.logout = "", !.log = <<>>]
    /\ UNCHANGED <<calls, SessionOtherVars>>

\* The local state handleLogout's finally block leaves.
LoggedOut(s) == [s EXCEPT !.fullName = NoFullName, !.isLoggedIn = FALSE]

\* GET of the logout URL: the answer is not looked at, a throw is caught;
\* the finally block clears the local session.
LogoutFetch ==
    /\ sess.pc = "logout_fetch"
    /\ \E r \in Responses :
         sess' = [LoggedOut(sess) EXCEPT
                    !.log = Append(sess.log, Req("GET", "logout", 0, "none")),
                    !.logout = r,
                    !.pc = "logout_done"]
    /\ UNCHANGED <<calls, SessionOtherVars>>

\* handleLogout is over.
LogoutDone ==
    /\ sess.pc = "logout_done"
    /\ sess' = [sess EXCEPT !.pc = "idle"]
    /\ UNCHANGED <<calls, SessionOtherVars>>

NextSession ==
    \/ LoginCalled
    \/ LoginFetch
    \/ LoginReturned
    \/ LogoutPressed
    \/ LogoutFetch
    \/ LogoutDone

SpecSession == Init /\ [][NextSession]_vars

\* ------------------------------------------------------------- claims
\* A createCashDeposit call is running or has just completed.
InDepositCall == dpc \notin {"idle", "alerted"}

\* A createCollectionOnErp call is running or has just completed.
InCollectionCall == cpc \notin {"idle", "typed", "alerted"}

IsFlagPut(e) == e.m = "PUT" /\ e.u = "FOS Collection" /\ e.b = "is_deposited"

IsDepositDelete(e) == e.m = "DELETE" /\ e.u = "FOS Cash Deposit"

IsCollectionDelete(e) == e.m = "DELETE" /\ e.u = "FOS Collection"

IsWrite(e) == e.m \in {"POST", "PUT", "DELETE"}

\* Some deposit that still exists lists the collection as a line item.
LiveDepositLists(name) ==
    \E d \in 1..Len(deposits) :
        /\ deposits[d].status = "live"
        /\ \E i \in 1..Len(deposits[d].collections) :
             deposits[d].collections[i].collection = name

\* C1 (as claimed): within one createCashDeposit call no DELETE of the
\* deposit follows a PUT {is_deposited: 1}, and once the call has completed
\* every collection it flagged is a line item of a deposit that still exists.
C1_DeleteOnlyBeforeFlagging ==
    InDepositCall =>
        /\ \A i, j \in 1..Len(dLog) :
             (i < j /\ IsFlagPut(dLog[i])) => ~IsDepositDelete(dLog[j])
        /\ dpc \in {"returned", "thrown"} =>
             \A i \in 1..dIdx :
                 LET name == dParams.selected_collections[i].name IN
                 collections[name].is_deposited = 1 => LiveDepositLists(name)

SlipFailures == {"rejected", "threw", "nourl", "link_rejected", "link_threw"}

\* C2 (as claimed): once the deposit exists, no failure of the slip-image
\* step (upload rejected, upload failing at transport level, no file URL,
\* failing link PUT) deletes the deposit or fails the call: the call goes on
\* to flag every selected collection, and only the final fetch can fail it.
C2_SlipFailureNotFatal ==
    (InDepositCall /\ dSlip \in SlipFailures) =>
        /\ dErr \notin {"upload", "link"}
        /\ dpc \in {"returned", "thrown"} =>
             dIdx = Len(dParams.selected_collections)

\* The PUT {is_deposited: 1} requests of the log, in order.
FlagPuts == SelectSeq(dLog, IsFlagPut)

\* C3: once the flagging step is reached there is exactly one
\* PUT {is_deposited: 1} per selected collection, in selection order,
\* whatever the earlier attempts were answered, and no such attempt makes
\* the call fail (after the loop only the final fetch can).
C3_FlagEachOnceInOrder ==
    InDepositCall =>
        /\ FlagPuts = [i \in 1..dIdx |->
                         Req("PUT", "FOS Collection",
                             dParams.selected_collections[i].name, "is_deposited")]
        /\ (dIdx > 0 /\ dpc # "flag") => dIdx = Len(dParams.selected_collections)
        /\ dIdx > 0 => dErr \in {"", "fetch"}
        /\ dpc = "returned" => dIdx = Len(dParams.selected_collections)

\* C3 witness: the loop is over, the attempt for the first of two selected
\* collections failed and the attempt for the second succeeded.
C3_Witness ==
    /\ dpc = "fetch"
    /\ Len(dParams.selected_collections) = 2
    /\ collections[dParams.selected_collections[1].name].is_deposited = 0
    /\ collections[dParams.selected_collections[2].name].is_deposited = 1

\* C4 (as claimed): createCashDeposit called with an empty
\* selected_collections fails before any network call and creates no deposit.
C4_EmptySelectionRejected ==
    (InDepositCall /\ dParams.selected_collections = <<>>) =>
        /\ dLog = <<>>
        /\ depositName = 0
        /\ dpc # "returned"

\* C5 (as claimed): the list the deposit screen hands to createCashDeposit
\* is never empty and holds only rows of the last fetched undeposited list.
C5_ScreenPassesNonEmptySelection ==
    InDepositCall =>
        /\ Len(dParams.selected_collections) > 0
        /\ \A i \in 1..Len(dParams.selected_collections) :
             \E k \in 1..Len(undepositedCollections) :
                 undepositedCollections[k] = dParams.selected_collections[i]

\* The form asks for a reference the mode requires and does not give it.
ModeReferenceMissing(form) ==
    \/ form.mode = "UPI" /\ Trim(form.upi_txn_id) = ""
    \/ form.mode = "Cheque" /\ Trim(form.cheque_no) = ""

ValidationAlerts ==
    {"Missing Fields", "Invalid Amount", "Missing UPI Txn ID",
     "Missing Cheque No", "Invalid Date"}

\* C6: a Save of a form with mode UPI and no UPI transaction id, or mode
\* Cheque and no cheque number, ends in a validation Alert with no request
\* issued and nothing created.
C6_ModeReferenceRequired ==
    (cpc \notin {"idle", "typed"} /\ ModeReferenceMissing(cForm)) =>
        /\ cpc = "alerted"
        /\ cAlert \in ValidationAlerts
        /\ cLog = <<>>
        /\ collections = <<>>

\* C6 witness: Save was refused for a UPI form without transaction id that
\* is otherwise complete, and for nothing else.
C6_Witness ==
    /\ cpc = "alerted"
    /\ cForm.mode = "UPI" /\ cForm.upi_txn_id = ""
    /\ cAlert = "Missing UPI Txn ID"
    /\ cLog = <<>>

CollectionDeletes == SelectSeq(cLog, IsCollectionDelete)

\* C7: when the receipt upload or the update of receipt_image fails after
\* the collection was created, the completed call has issued exactly one
\* DELETE, for the created collection, and throws the upload/update error,
\* whatever the DELETE was answered.
C7_RollbackOnceOriginalError ==
    /\ InCollectionCall => Len(CollectionDeletes) <= 1
    /\ (cpc = "thrown" /\ cFail \in {"upload", "link"}) =>
        /\ collectionName # 0
        /\ CollectionDeletes =
             <<Req("DELETE", "FOS Collection", collectionName, "none")>>
        /\ cErr = cFail

\* C7 witness: the update of receipt_image failed, the DELETE failed too
\* (the collection is still there), and the call threw the update error.
C7_Witness ==
    /\ cpc = "thrown"
    /\ cFail = "link"
    /\ cErr = "link"
    /\ Len(CollectionDeletes) = 1
    /\ collections[collectionName].status = "live"

\* C8 (as claimed): a failed createCollectionOnErp call whose create request
\* was answered 2xx (also without a document name, also when the final
\* fetch fails) has issued a DELETE for the created record; a call that
\* failed before the create request has issued no POST, PUT or DELETE.
C8_FailedCreateCompensated ==
    cpc = "thrown" =>
        /\ cFail \in {"noname", "upload", "link", "fetch"} =>
             Len(CollectionDeletes) = 1
        /\ cFail \in {"email", "fullname", "date"} =>
             \A i \in 1..Len(cLog) : ~IsWrite(cLog[i])

\* C9: the create payload lists the selected collections as line items in
\* selection order, item i being {collection: name_i, amount: amount_i},
\* and amount_deposited is the sum of the line amounts; the deposit stored
\* by an accepted create request carries both.
C9_PayloadTotalsAndItems ==
    (InDepositCall /\ dPayload # NoPayload) =>
        LET sel == dParams.selected_collections
            items == dPayload.collections
        IN  /\ Len(items) = Len(sel)
            /\ \A i \in 1..Len(sel) :
                 items[i] = [collection |-> sel[i].name, amount |-> sel[i].amount]
            /\ dPayload.amount_deposited = SumAmounts(items)
            /\ depositName # 0 =>
                 /\ deposits[depositName].collections = items
                 /\ deposits[depositName].amount_deposited = SumAmounts(items)

\* C9 witness: a deposit was created from two selected collections of
\* different amounts.
C9_Witness ==
    /\ InDepositCall
    /\ depositName # 0
    /\ Len(dParams.selected_collections) = 2
    /\ dParams.selected_collections[1].amount # dParams.selected_collections[2].amount

\* The step flags collection n of the running createCashDeposit call, which
\* listed it in the deposit it created.
FlaggedByDeposit(n) ==
    /\ dpc = "flag"
    /\ depositName # 0
    /\ dParams.selected_collections[dIdx + 1].name = n
    /\ \E i \in 1..Len(deposits[depositName].collections) :
         deposits[depositName].collections[i].collection = n

\* C10: in every step a collection with is_deposited = 1 keeps it, and a
\* collection comes to have is_deposited = 1 (by a change or by being
\* created) only when createCashDeposit flags a collection of its deposit.
C10_DepositedOnlyByDepositFlag ==
    [][/\ \A n \in 1..Len(collections) :
            collections[n].is_deposited = 1 => collections'[n].is_deposited = 1
       /\ \A n \in 1..Len(collections') :
            (/\ collections'[n].is_deposited = 1
             /\ (n > Len(collections) \/ collections[n].is_deposited = 0))
            => FlaggedByDeposit(n)]_vars

\* C10 witness: a collection saved with the "Is Deposited" switch on was
\* created undeposited and has since been flagged by a deposit call.
C10_Witness ==
    /\ dpc = "returned"
    /\ \E i \in 1..Len(dParams.selected_collections) :
         collections[dParams.selected_collections[i].name].is_deposited = 1

\* The record the current createCollectionOnErp call created, if any.
CreatedCollection == collections[collectionName]

\* C11: the record created from a form of the collection screen carries the
\* amount parseFloat reads from the trimmed amount text, the mode chosen,
\* the trimmed UPI transaction id and cheque number, and is_deposited = 0.
C11_RecordCarriesNormalizedInputs ==
    (collectionName # 0 /\ cForm # BlankForm) =>
        /\ CreatedCollection.amount = ParseFloat(Trim(cForm.amount)).value
        /\ CreatedCollection.mode = cForm.mode
        /\ CreatedCollection.upi_txn_id = Trim(cForm.upi_txn_id)
        /\ CreatedCollection.cheque_no = Trim(cForm.cheque_no)
        /\ CreatedCollection.is_deposited = 0

\* C11 witness: a UPI collection with its transaction id, saved with the
\* "Is Deposited" switch on, was created and the call returned.
C11_Witness ==
    /\ cpc = "returned"
    /\ cForm.mode = "UPI"
    /\ cForm.is_deposited
    /\ CreatedCollection.upi_txn_id = "u1"
    /\ CreatedCollection.amount = 2
    /\ CreatedCollection.is_deposited = 0

\* C12 (as stated; refuted by the amount text "1abc"): a form whose amount
\* text is empty, is not a number, or is a number that is not positive is
\* refused before any request is issued.
C12_BadAmountRejectedBeforeNetwork ==
    (/\ cForm # BlankForm
     /\ \/ Trim(cForm.amount) \notin NumericAmountTexts
        \/ ParseFloat(Trim(cForm.amount)).value <= 0)
    => cLog = <<>>

\* The deposit_date text the current createCashDeposit call was given,
\* without the surrounding spaces, and its tokens.
DepositDateInput == TrimText(dParams.deposit_date)

DepositDateInputTokens == Tokens(DepositDateInput)

\* A text of the form YYYY-MM-DD, two digits for month and day.
IsCanonicalDate(text) == MatchesYmd(Tokens(text))

\* C13: once createCashDeposit has built its payload, the deposit_date of
\* the payload is the input itself when the input is YYYY-MM-DD; is the
\* canonical YYYY-MM-DD text with the same day, month and year when the
\* input is D/M/YYYY or D-M-YYYY; is today's date when the input is empty.
C13_DepositDateNormalized ==
    (dParams # NoParams /\ dPayload # NoPayload) =>
        LET in == DepositDateInput
            its == DepositDateInputTokens
            out == dPayload.deposit_date
            ots == Tokens(out)
        IN  /\ in = <<>> => out \in {formatDateForErp(now) : now \in Clocks}
            /\ MatchesYmd(its) => out = in
            /\ MatchesDmy(its) =>
                 /\ IsCanonicalDate(out)
                 /\ NumberOf(ots[1]) = NumberOf(its[5])
                 /\ NumberOf(ots[3]) = NumberOf(its[3])
                 /\ NumberOf(ots[5]) = NumberOf(its[1])

\* C13 witness: a deposit given "5/2/2025" was created with the date
\* "2025-02-05" and the call returned.
C13_Witness ==
    /\ dpc = "returned"
    /\ dParams.deposit_date = <<"5", "/", "2", "/", "2", "0", "2", "5">>
    /\ dPayload.deposit_date = <<"2", "0", "2", "5", "-", "0", "2", "-", "0", "5">>
    /\ Len(deposits) = 1

\* C13 witness (empty input): a deposit given no date was sent with the
\* date of the clock.
C13_WitnessToday ==
    /\ dpc = "returned"
    /\ dParams.deposit_date = <<>>
    /\ dPayload.deposit_date = <<"2", "0", "2", "6", "-", "0", "1", "-", "0", "5">>

\* A canonical text that names a day of the calendar: month 1..12, day
\* 1..length of that month.
IsCalendarDate(text) ==
    LET ts == Tokens(text)
    IN  /\ MatchesYmd(ts)
        /\ NumberOf(ts[3]) \in 1..12
        /\ NumberOf(ts[5]) \in 1..DaysInMonth(NumberOf(ts[1]), NumberOf(ts[3]))

\* The create request of the current createCashDeposit call has been issued.
DepositPosted ==
    \E i \in 1..Len(dLog) : dLog[i].m = "POST" /\ dLog[i].u = "FOS Cash Deposit"

\* C14 (as stated; refuted by the deposit date "24-13-2025"): the
\* deposit_date of every create request of createCashDeposit is a day of
\* the calendar.
C14_DepositDateIsCalendarDate ==
    (dPayload # NoPayload /\ DepositPosted) => IsCalendarDate(dPayload.deposit_date)

\* C15 (as stated; refuted by the deposit date "soon"): a createCashDeposit
\* call that failed on its deposit_date, and a createCollectionOnErp call
\* that failed on its collection_datetime, have issued no request.
C15_DateErrorsBeforeNetwork ==
    /\ dErr = "date" => dLog = <<>>
    /\ cFail = "date" => cLog = <<>>

\* The collection_datetime text the current createCollectionOnErp call was
\* given, without the surrounding spaces.
CollectionDateInput == TrimText(cParams.collection_datetime)

\* The canonical YYYY-MM-DD text of a date-only input in one of the three
\* formats; the empty text for any other input.
CanonicalDateOf(text) ==
    LET ts == Tokens(text)
    IN  IF MatchesYmd(ts) THEN text
        ELSE IF MatchesDmy(ts) /\ ts[2] = ts[4]
        THEN ts[5] \o <<"-">> \o padStart2(ts[3]) \o <<"-">> \o padStart2(ts[1])
        ELSE <<>>

\* C16 (as stated; refuted by "2025-11-24" on a device west of UTC): when
\* createCollectionOnErp is given a day of the calendar as DD/MM/YYYY,
\* DD-MM-YYYY or YYYY-MM-DD, the collection_datetime of its payload is a
\* YYYY-MM-DD HH:MM:SS text with that same date.
C16_CollectionDateKept ==
    (/\ cParams # NoParams
     /\ cPayload # NoPayload
     /\ IsCalendarDate(CanonicalDateOf(CollectionDateInput)))
    => /\ Len(cPayload.collection_datetime) = 19
       /\ SubSeq(cPayload.collection_datetime, 1, 10) = CanonicalDateOf(CollectionDateInput)

\* The names fetchUndepositedCollections would return now.
ListedNames ==
    {fetchUndepositedCollections[i].name : i \in 1..Len(fetchUndepositedCollections)}

\* The names of the selection of the current createCashDeposit call.
SelectedNames ==
    {dParams.selected_collections[i].name : i \in 1..Len(dParams.selected_collections)}

C18_ReceiptLinkedOnReturn ==
    (cpc = "returned" /\ cParams.receipt_image = "uri") =>
        /\ fileUrl = ReceiptFileUrl(collectionName)
        /\ CreatedCollection.receipt_image = fileUrl

\* C18 witness: a call with a receipt returned and its record carries the
\* uploaded file.
C18_Witness ==
    /\ cpc = "returned"
    /\ cParams.receipt_image = "uri"
    /\ cForm.receipt_image_asset = "uri"
    /\ CreatedCollection.receipt_image = ReceiptFileUrl(collectionName)
    /\ \E i \in 1..Len(cLog) : cLog[i].m = "POST" /\ cLog[i].u = "upload_file"

\* C19: a createCashDeposit or createCollectionOnErp call whose
\* fetchLoggedInUserEmail failed (non-2xx answer, or a message that is not
\* a non-empty string) has thrown that error after its one GET, and has
\* issued no POST, PUT or DELETE.
C19_NoWriteWithoutIdentity ==
    /\ dErr = "email" =>
         /\ dpc = "thrown"
         /\ Len(dLog) = 1
         /\ \A i \in 1..Len(dLog) : ~IsWrite(dLog[i])
    /\ cFail = "email" =>
         /\ cpc = "thrown"
         /\ cErr = "email"
         /\ Len(cLog) = 1
         /\ \A i \in 1..Len(cLog) : ~IsWrite(cLog[i])

\* C19 witness: a createCashDeposit call with a selection and a slip image
\* has thrown on the logged-user request.
C19_Witness ==
    /\ dErr = "email"
    /\ dpc = "thrown"
    /\ dParams.selected_collections # <<>>
    /\ dParams.deposit_slip_image = "uri"
    /\ dLog = <<Req("GET", "get_logged_user", 0, "none")>>

\* C19 witness (collections): a createCollectionOnErp call with a receipt
\* has thrown on the logged-user request.
C19_WitnessCollection ==
    /\ cFail = "email"
    /\ cpc = "thrown"
    /\ cParams.receipt_image = "uri"
    /\ cLog = <<Req("GET", "get_logged_user", 0, "none")>>

\* The first non-empty text of a sequence whose last text is not empty.
FirstNonEmpty(texts) ==
    texts[CHOOSE i \in 1..Len(texts) :
              texts[i] # "" /\ \A j \in 1..(i - 1) : texts[j] = ""]

\* The names a call can resolve for the login: the display name of the
\* User document (full name, else first name, else username, else the
\* email), or the email when the User request was rejected.
ResolvedNames ==
    {FirstNonEmpty(<<userDoc.full_name, userDoc.first_name, userDoc.username,
                     LoginEmail>>),
     LoginEmail}

\* The fos_agent a payload must carry for the params of its call.
AgentFor(params, payload) ==
    /\ payload.fos_agent # ""
    /\ IF params.fos_agent # ""
       THEN payload.fos_agent = params.fos_agent
       ELSE payload.fos_agent \in ResolvedNames

\* C20: the fos_agent of the payload of a create request, of a deposit or
\* of a collection, is the agent the caller gave when that is not empty,
\* otherwise the name resolved for the login; it is never empty.
C20_AgentIsCallerOrResolved ==
    /\ (dParams # NoParams /\ dPayload # NoPayload) => AgentFor(dParams, dPayload)
    /\ (cParams # NoParams /\ cPayload # NoPayload) => AgentFor(cParams, cPayload)

\* C20 witness: a deposit was created by a call given no agent, for a login
\* with no full name; it carries the first name.
C20_Witness ==
    /\ dpc = "returned"
    /\ Len(deposits) = 1
    /\ dParams.fos_agent = ""
    /\ userDoc.full_name = "" /\ userDoc.first_name = "First"
    /\ dPayload.fos_agent = "First"

\* C20 witness (email): a collection was created by a call given no agent,
\* for a login with no name at all; it carries the email.
C20_WitnessEmail ==
    /\ cpc = "returned"
    /\ cParams.fos_agent = ""
    /\ userDoc = [full_name |-> "", first_name |-> "", username |-> ""]
    /\ cPayload.fos_agent = LoginEmail

\* C21 (as stated; refuted by an asset without uri): a createCashDeposit
\* call given a slip image without uri, and a createCollectionOnErp call
\* given a receipt image without uri, do not return successfully.
C21_AssetWithoutUriFails ==
    /\ dpc = "returned" => dParams.deposit_slip_image # "nouri"
    /\ cpc = "returned" => cParams.receipt_image # "nouri"

IsUpload(e) == e.m = "POST" /\ e.u = "upload_file"

IsImagePut(e) == e.m = "PUT" /\ e.b \in {"deposit_slip_image", "receipt_image"}

\* C22: a call sends at most one upload request, exactly one when it was
\* given an asset with a uri and has returned; a call whose upload was
\* answered non-2xx or without a file URL has issued no update request
\* writing the image field.
C22_OneUploadNoLinkOnFailure ==
    /\ [](/\ Len(SelectSeq(dLog, IsUpload)) <= 1
          /\ Len(SelectSeq(cLog, IsUpload)) <= 1
          /\ (dpc = "returned" /\ dParams.deposit_slip_image = "uri")
               => Len(SelectSeq(dLog, IsUpload)) = 1
          /\ (cpc = "returned" /\ cParams.receipt_image = "uri")
               => Len(SelectSeq(cLog, IsUpload)) = 1
          /\ dSlip \in {"rejected", "nourl", "threw"} => Len(SelectSeq(dLog, IsImagePut)) = 0
          /\ cFail = "upload" => Len(SelectSeq(cLog, IsImagePut)) = 0)
    /\ [][/\ Len(SelectSeq(dLog', IsImagePut)) > Len(SelectSeq(dLog, IsImagePut)) => dSlip = "uploaded"
          /\ Len(SelectSeq(cLog', IsImagePut)) > Len(SelectSeq(cLog, IsImagePut))
               => fileUrl = ReceiptFileUrl(collectionName)]_vars

\* C22 witness: a deposit call whose one upload was answered without a file
\* URL has returned without an update of the image field.
C22_Witness ==
    /\ dpc = "returned"
    /\ dSlip = "nourl"
    /\ Len(SelectSeq(dLog, IsUpload)) = 1
    /\ Len(SelectSeq(dLog, IsImagePut)) = 0

\* C22 witness (collections): a collection call whose one upload was
\* rejected has thrown without an update of the image field.
C22_WitnessCollection ==
    /\ cpc = "thrown"
    /\ cFail = "upload"
    /\ Len(SelectSeq(cLog, IsUpload)) = 1
    /\ Len(SelectSeq(cLog, IsImagePut)) = 0

\* C23: in a createCashDeposit call, a flag update or a slip upload has
\* been sent only if the create request was sent before it and returned a
\* document name; a call whose create request was refused has thrown with
\* no flag update and no upload sent, and the refusal leaves the deposits
\* of the store as they were.
C23_CreateBeforeFlagAndUpload ==
    /\ [](/\ \A i \in 1..Len(dLog) :
                (IsFlagPut(dLog[i]) \/ IsUpload(dLog[i])) =>
                    /\ depositName # 0
                    /\ \E j \in 1..(i - 1) :
                         dLog[j].m = "POST" /\ dLog[j].u = "FOS Cash Deposit"
          /\ dErr = "create" =>
                /\ dpc = "thrown"
                /\ depositName = 0
                /\ Len(SelectSeq(dLog, IsFlagPut)) = 0
                /\ Len(SelectSeq(dLog, IsUpload)) = 0)
    /\ [][dErr' = "create" => deposits' = deposits]_vars

\* C23 witness: a call with a selection and a slip image has thrown on a
\* refused create request.
C23_Witness ==
    /\ dErr = "create"
    /\ dpc = "thrown"
    /\ dParams.selected_collections # <<>>
    /\ dParams.deposit_slip_image = "uri"
    /\ DepositPosted

\* C23 witness (order): a call has flagged a collection and uploaded a
\* slip after its deposit was created.
C23_WitnessFlagged ==
    /\ dpc = "returned"
    /\ depositName # 0
    /\ Len(SelectSeq(dLog, IsFlagPut)) = 1
    /\ Len(SelectSeq(dLog, IsUpload)) = 1

\* The collections that exist before a step and are deleted after it.
DeletedByStep ==
    {n \in 1..Len(collections) :
        collections[n].status = "live" /\ collections'[n].status = "deleted"}

\* C24: on the collection and deposit screens (CollectionScreen's
\* handleDelete is bound to no control, so deleteCollection is never
\* called) a step deletes a Collection record only as the rollback of the
\* createCollectionOnErp call that created it and then failed; a
\* createCashDeposit call sends no DELETE of a collection.
C24_CollectionDeletedOnlyByRollback ==
    [][/\ \A n \in DeletedByStep :
            /\ cpc = "rb_delete"
            /\ n = collectionName
            /\ cFail # ""
       /\ Len(SelectSeq(cLog', IsCollectionDelete)) > Len(SelectSeq(cLog, IsCollectionDelete)) =>
            /\ cpc = "rb_delete"
            /\ cFail # ""
            /\ cLog'[Len(cLog')].n = collectionName
       /\ Len(SelectSeq(dLog', IsCollectionDelete)) = 0]_vars

\* C24 witness: a collection was created, linking its receipt failed, and
\* the rollback deleted it.
C24_Witness ==
    /\ cpc = "thrown"
    /\ cFail = "link"
    /\ collections[collectionName].status = "deleted"
    /\ Len(SelectSeq(cLog, IsCollectionDelete)) = 1

\* C25 (as stated; refuted by any collection the app created): every
\* collection the deposit screen offers for deposit is submitted
\* (docstatus = 1).
C25_OnlySubmittedOffered ==
    \A i \in 1..Len(undepositedCollections) :
        collections[undepositedCollections[i].name].docstatus = 1

\* The live deposits that list a collection as a line item.
DepositsListing(name) ==
    {d \in 1..Len(deposits) :
        /\ deposits[d].status = "live"
        /\ \E i \in 1..Len(deposits[d].collections) :
             deposits[d].collections[i].collection = name}

\* C26 (as stated; refuted by two devices selecting the same collection):
\* once both createCashDeposit calls have completed, no collection is a
\* line item of two existing deposits.
C26_NoCollectionInTwoDeposits ==
    (dpc \in {"returned", "thrown"} /\ other.pc \in {"returned", "thrown"}) =>
        \A n \in 1..Len(collections) : Cardinality(DepositsListing(n)) <= 1

\* A step of the createCashDeposit call: it issues one more request.
DepositCallStep == Len(dLog') = Len(dLog) + 1

\* C27: a step of a createCashDeposit call adds no Collection record and
\* removes none, changes only records named in selected_collections, and
\* changes on them only is_deposited, to 1; it sends no DELETE of a
\* collection.
C27_DepositFrame ==
    [][DepositCallStep =>
         /\ Len(collections') = Len(collections)
         /\ \A n \in 1..Len(collections) :
              collections'[n] # collections[n] =>
                  /\ n \in SelectedNames
                  /\ collections'[n] = [collections[n] EXCEPT !.is_deposited = 1]
         /\ ~IsCollectionDelete(dLog'[Len(dLog')])]_vars

\* C27 witness: a call that selected one of two undeposited collections has
\* returned; the selected one is flagged, the other is as it was.
C27_Witness ==
    /\ dpc = "returned"
    /\ SelectedNames = {1}
    /\ collections[1] = [StoredCollection(1) EXCEPT !.is_deposited = 1]
    /\ collections[2] = StoredCollection(2)
    /\ other.pc = "create"

\* C28: on the deposit screen isSaving is true exactly while a
\* createCashDeposit call is running or about to be settled by handleSave,
\* so that Save (enabled only while isSaving is false) starts no second
\* call; and a call sends at most one create request.
C28_OneDepositCallInFlight ==
    /\ isSaving <=> InDepositCall
    /\ Len(SelectSeq(dLog, LAMBDA e : e.m = "POST" /\ e.u = "FOS Cash Deposit")) <= 1

\* C28 witness: a Save has created its deposit and is flagging, isSaving
\* is true.
C28_Witness ==
    /\ isSaving
    /\ dpc = "flag"
    /\ DepositPosted
    /\ Live(deposits, depositName)

\* C28 witness (settled): a Save has succeeded and isSaving is false again.
C28_WitnessSettled ==
    /\ ~isSaving
    /\ dpc = "idle"
    /\ \E d \in 1..Len(deposits) : deposits[d].status = "live"

\* The steps of markAttendanceOnErp that come after the created document's
\* name was read.
AttendanceStepsAfterCreate == {"upload", "file_url", "set_value"}

IsAttendanceDelete(e) == e.m = "DELETE"

\* C29: markAttendanceOnErp with a missing selfie, or a selfie without uri,
\* throws before any request is sent.  When the selfie upload fails, the
\* upload answer has no file_url, or the update of the selfie field fails,
\* the call sends exactly one DELETE of the document it created, as its last
\* request, and then throws the error of the failed step whatever the DELETE
\* did; when that DELETE succeeded the created document is gone.  A call
\* that returns leaves its document with the selfie linked.
C29_AttendanceRolledBack ==
    /\ att.fail = "selfie" => att.log = <<>> /\ att.pc \in {"thrown", "idle"}
    /\ (att.pc = "thrown" /\ att.fail \in AttendanceStepsAfterCreate) =>
          /\ att.attendanceName # 0
          /\ Len(SelectSeq(att.log, IsAttendanceDelete)) = 1
          /\ att.log[Len(att.log)] =
                 Req("DELETE", "FOS Attendance", att.attendanceName, "none")
          /\ att.err = att.fail
          /\ att.rollback = "ok" => att.docs[att.attendanceName].status = "deleted"
    /\ att.pc = "returned" =>
          /\ att.docs[att.attendanceName].status = "live"
          /\ att.docs[att.attendanceName].selfie = SelfieFileUrl(att.attendanceName)
    /\ att.pc = "rb_delete" => att.fail \in AttendanceStepsAfterCreate

\* C29 witness: the update of the selfie field failed after the upload
\* succeeded, the DELETE succeeded and the error of the update was thrown.
C29_Witness ==
    /\ att.pc = "thrown"
    /\ att.fail = "set_value"
    /\ att.rollback = "ok"
    /\ att.err = "set_value"
    /\ att.docs[att.attendanceName].status = "deleted"

\* C29, second case: a selfie without uri made the call throw with no
\* request sent.
C29_WitnessNoUri ==
    /\ att.pc = "thrown"
    /\ att.selfie = "nouri"
    /\ att.log = <<>>

\* C29, third case: the DELETE itself threw and the error of the missing
\* file_url was still the one thrown.
C29_WitnessDeleteThrew ==
    /\ att.pc = "thrown"
    /\ att.fail = "file_url"
    /\ att.rollback = "threw"
    /\ att.err = "file_url"

\* C30: loginWithPassword never throws; with an empty username or password
\* it returns ok = false and statusCode null with no request sent; it
\* returns ok = true only when the login request was answered with a 2xx
\* status.  When handleLogout is over the app is logged out locally
\* (isLoggedIn false, fullName cleared) whatever the logout request did.
C30_SessionHandling ==
    /\ ~sess.result.thrown
    /\ (sess.pc = "login_returned" /\ (sess.username = "" \/ sess.password = "")) =>
          /\ ~sess.result.ok
          /\ sess.result.statusCode = 0
          /\ sess.log = <<>>
    /\ (sess.pc = "login_returned" /\ sess.result.ok) =>
          /\ sess.response.kind = "answered"
          /\ sess.response.status >= 200
          /\ sess.response.status <= 299
          /\ Len(sess.log) = 1
    /\ sess.pc = "logout_done" =>
          /\ ~sess.isLoggedIn
          /\ sess.fullName = NoFullName
          /\ Len(sess.log) = 1

\* C30 witness: a user who had logged in pressed Logout, the logout request
\* threw, and the app is logged out.
C30_Witness ==
    /\ sess.pc = "logout_done"
    /\ sess.logout = "threw"
    /\ sess.result.ok
    /\ ~sess.isLoggedIn

\* C30, second case: the login fetch rejected and loginWithPassword
\* returned a failure without status.
C30_WitnessFetchThrew ==
    /\ sess.pc = "login_returned"
    /\ sess.response.kind = "threw"
    /\ ~sess.result.ok
    /\ sess.result.statusCode = 0

\* C30, third case: an empty password, nothing sent.
C30_WitnessEmpty ==
    /\ sess.pc = "login_returned"
    /\ sess.username = "agent"
    /\ sess.password = ""
    /\ sess.log = <<>>
====
